---- MODULE Spec2Model ----
(***************************************************************************)
(* Model of the per-frame rendering protocol of VulkanEngine               *)
(* (src/src/VulkanEngine.cpp) and of the frame synchronisation objects it  *)
(* drives (src/src/VulkanSynchronization.cpp).                             *)
(*                                                                         *)
(* One control thread executes initialize(), render(), handleResize() and  *)
(* cleanup(); the GPU completes submitted work asynchronously.  The        *)
(* variable pc is the position of the control thread inside the operation  *)
(* it is executing ("idle" between operations); GpuComplete interleaves    *)
(* with every position.  Every backend call that can fail is a             *)
(* nondeterministic choice between its results.                            *)
(*                                                                         *)
(* Five further specifications model components on their own:              *)
(* BufferSpec the buffers of src/src/VulkanBuffer.cpp and the uniform       *)
(* buffers and descriptor sets of the engine, SwapchainSpec the settings    *)
(* chosen by src/src/VulkanSwapchain.cpp, CheckedSpec the argument tests    *)
(* of VulkanSynchronization and VulkanCommandPool, DependentsSpec the       *)
(* objects the engine builds from its swapchain, OwnSpec the ownership of   *)
(* handles by VulkanBuffer objects.  Every specification holds the          *)
(* variables of the others at their initial values.                         *)
(***************************************************************************)
EXTENDS Integers, Naturals, Sequences, FiniteSets, TLC

\* ---------------------------------------------------------------- bounds
\* number of render() calls that complete a frame before the model stops
\* starting new ones
MaxFrames == 3
\* number of environment disturbances (backend results other than plain
\* success, resize events) the model explores in one behaviour
MaxDisturb == 2
\* window and surface widths range over 0..MaxWidth
MaxWidth == 2
\* window and surface heights range over 0..MaxHeight
MaxHeight == 1
\* measured frame durations range over 1..MaxDuration
MaxDuration == 1

\* number of memory types a device reports at most
MaxMemoryTypes == 2
\* number of distinct data values written to buffers
MaxData == 2
\* surface formats a surface reports at most
MaxFormats == 2
\* largest minImageCount a surface reports
MaxImageCount == 2
\* swapchain creations in a row with the same capabilities and dimensions
MaxRecreate == 3
\* largest frame index passed to VulkanSynchronization
MaxFrameIndex == 4
\* longest list passed to submitCommandBuffers and bindVertexBuffers
MaxList == 2
\* images a driver creates at most beyond the requested minimum
MaxExtraImages == 1

\* ------------------------------------------------------ program constants
MAX_FRAMES_IN_FLIGHT == 2

\* Application::run: `const uint32_t maxConsecutiveErrors = 5;`
maxConsecutiveErrors == 5

Slots == 0 .. (MAX_FRAMES_IN_FLIGHT - 1)
Widths  == 0 .. MaxWidth
Heights == 0 .. MaxHeight

\* enum class InitializationState, in declaration order
InitializationState ==
    << "NOT_INITIALIZED", "INSTANCE_CREATED", "SURFACE_CREATED",
       "DEVICE_CREATED", "SWAPCHAIN_CREATED", "RENDER_PASS_CREATED",
       "PIPELINE_CREATED", "DESCRIPTORS_CREATED", "BUFFERS_CREATED",
       "COMMAND_POOL_CREATED", "SYNCHRONIZATION_CREATED",
       "CHARACTER_LOADED", "FULLY_INITIALIZED" >>

\* static_cast<int>(state): position of the enumerator in the declaration
Ord(s) == CHOOSE i \in 1 .. Len(InitializationState) : InitializationState[i] = s

\* the comparison `m_initState >= X` used by cleanup()
AtLeast(s, x) == Ord(s) >= Ord(x)

\* the Vulkan objects the engine owns
Objects == { "instance", "surface", "device", "swapchain", "renderPass",
             "depthBuffer", "framebuffers", "pipeline", "descriptorPool",
             "commandPool", "buffers", "uniformBuffers", "sync", "character" }

\* objects recreateSwapchain() destroys and recreates, in creation order
SwapchainDependents ==
    << "swapchain", "renderPass", "depthBuffer", "framebuffers", "pipeline" >>

Range(f) == { f[i] : i \in DOMAIN f }

Prefix(seq, k) == { seq[i] : i \in 1 .. k }

\* the destroy calls made when the objects of seq are destroyed in order while
\* the objects objs exist: which object each call destroys and which objects
\* are left after it; a handle that is already null is skipped
RECURSIVE DestroyLog(_, _)
DestroyLog(seq, objs) ==
    IF seq = << >> THEN << >>
    ELSE IF Head(seq) \in objs
    THEN << [ obj |-> Head(seq), left |-> objs \ { Head(seq) } ] >>
         \o DestroyLog(Tail(seq), objs \ { Head(seq) })
    ELSE DestroyLog(Tail(seq), objs)

NoneDestroyed == [ by |-> "none", log |-> << >>, waits |-> 0, again |-> FALSE ]

\* ------------------------------------------------------------- variables
VARIABLES
    initState,      \* m_initState
    pc,             \* position of the control thread
    windowWidth,    \* m_windowWidth
    windowHeight,   \* m_windowHeight
    currentFrame,   \* m_currentFrame
    frameCount,     \* m_frameCount
    fence,          \* fence[i] = TRUE iff inFlightFence of slot i is signalled
    pending,        \* pending[i] = submissions of slot i the GPU has not finished
    alive,          \* the Vulkan objects that currently exist
    swapchainId,    \* identity of the current swapchain (counts creations)
    initStep,       \* index of the initialize() step being executed, or that threw
    rsCaller,       \* who called recreateSwapchain()
    clCaller,       \* who called cleanup()
    disturb,        \* disturbances still available to the environment
    resets,         \* resets[i] = resets of fence i since the last submit into slot i
    uboWriters,     \* uboWriters[b] = slots whose updateUniformBuffer wrote buffer b
    hazard,         \* a CPU write hit a resource a pending submission uses
    busyAtDrain,    \* GPU work was outstanding when the current drain was entered
    call,           \* record of the current / last render() call
    last,           \* last finished operation and how it ended
    renders,        \* render() calls since initialize(), while all of them succeeded
    cleanRun,       \* every render() call since initialize() succeeded in full
    waitedSlots,    \* slots waitForFrame was called on since the fences were created
    submittedSlots, \* slots submitted into since the fences were created
    lastFrameTime,  \* m_lastFrameTime
    running,        \* Application::m_running
    consecutiveErrors, \* consecutiveErrors of Application::run
    destroyed,      \* the destroy and wait calls made since the current operation began
    extent,         \* m_swapchain.getExtent(), as << width, height >>
    memoryTypes,    \* VkPhysicalDeviceMemoryProperties.memoryTypes of the device
    vkBuffers,      \* the VkBuffer handles that exist, each with its bound memory
    vkMemory,       \* the VkDeviceMemory allocations that exist, with their contents
    uniformBuffers, \* m_uniformBuffers
    descriptorSets, \* the buffer each of m_descriptorSets was written to read
    locals,         \* stagingBuffer and the buffer being built, of a BufferUtils call
    copy,           \* the buffer copy submitted to the graphics queue
    calls,          \* backend calls made by the operation on buffers in progress or last finished
    bpc,            \* position inside the operation on buffers in progress
    bresult,        \* the last finished operation on buffers and how it ended
    support,        \* SwapchainSupportDetails the surface reports
    request,        \* width and height passed to VulkanSwapchain::create
    chain,          \* the parameters of the swapchain that exists
    chainLog,       \* the parameters of the swapchains created so far
    driver,         \* depth formats the device supports, images the driver adds
    dependents,     \* render pass, depth buffer, framebuffers and pipeline of the engine
    frameSyncObjects, \* m_frameSyncObjects.size()
    checked         \* the last call with checked arguments

vars == << initState, pc, windowWidth, windowHeight, currentFrame, frameCount,
           fence, pending, alive, swapchainId, initStep, rsCaller, clCaller,
           disturb, resets, uboWriters, hazard, busyAtDrain, call, last,
           renders, cleanRun, waitedSlots, submittedSlots, lastFrameTime,
           running, consecutiveErrors, destroyed, extent,
           memoryTypes, vkBuffers, vkMemory, uniformBuffers, descriptorSets,
           locals, copy, calls, bpc, bresult,
           support, request, chain, chainLog, driver, dependents,
           frameSyncObjects, checked >>

bufferVars == << memoryTypes, vkBuffers, vkMemory, uniformBuffers,
                 descriptorSets, locals, copy, calls, bpc, bresult >>
chainVars  == << support, request, chain, chainLog, driver, dependents >>
checkVars  == << frameSyncObjects, checked >>

engineVars == << initState, windowWidth, windowHeight, currentFrame, frameCount >>
gpuVars    == << fence, pending >>

AllIdle == \A i \in Slots : pending[i] = 0

\* variant of UniformBufferOf: every slot is given the same buffer
UniformBufferShared(i) == 0

\* m_uniformBuffers[i] after createUniformBuffers(): one buffer per slot
UniformBufferOf(i) == i

\* record of a render() call that has not started
NoCall ==
    [ outcome |-> "none", prev |-> "none", slot |-> 0, startCount |-> 0,
      waited |-> FALSE, acquire |-> "none", chain |-> 0, prevChain |-> 0,
      reset |-> FALSE, updated |-> FALSE, recorded |-> FALSE,
      submitted |-> FALSE, present |-> "none", fatal |-> FALSE,
      raised |-> FALSE, recoveries |-> 0, recoveryThrew |-> FALSE,
      recreated |-> 0, firstWait |-> FALSE, timedOut |-> FALSE,
      byLoop |-> FALSE, errorsBefore |-> 0 ]

NoOp == [ op |-> "none", result |-> "none" ]

\* ------------------------------------------------------------- swapchain
\* m_extent of a VulkanSwapchain that holds no swapchain
NoExtent == << 0, 0 >>

\* capabilities.currentExtent when the surface leaves the extent to the
\* swapchain (width = UINT32_MAX)
UndefinedExtent == << -1, -1 >>

\* the values capabilities.currentExtent can have
SurfaceExtents == { UndefinedExtent } \cup ((1 .. MaxWidth) \X (1 .. MaxHeight))

\* std::clamp(x, minImageExtent, maxImageExtent)
Clamp(x, lo, hi) == IF x < lo THEN lo ELSE IF x > hi THEN hi ELSE x

\* VulkanSwapchain::chooseSwapExtent: the surface's current extent if it has
\* one, else the window size clamped to the supported range
ChooseSwapExtent(current, w, h) ==
    IF current[1] # UndefinedExtent[1]
    THEN current
    ELSE << Clamp(w, 1, MaxWidth), Clamp(h, 1, MaxHeight) >>

\* the surface reporting current (instead of following the stored window
\* size) is a disturbance by the environment
Surprising(current) ==
    /\ ~(windowWidth = 0 \/ windowHeight = 0)
    /\ ChooseSwapExtent(current, windowWidth, windowHeight) # << windowWidth, windowHeight >>

\* --------------------------------------------------------------- buffers
\* VK_NULL_HANDLE
NullHandle == 0

\* VkMemoryPropertyFlags, as the set of the bits that are set
MemoryFlags == { "DEVICE_LOCAL", "HOST_VISIBLE", "HOST_COHERENT" }

\* the propertyFlags a memory type of a modelled device can have
MemoryTypeFlags ==
    { { "DEVICE_LOCAL" }, { "HOST_VISIBLE" }, { "HOST_VISIBLE", "HOST_COHERENT" },
      { "DEVICE_LOCAL", "HOST_VISIBLE", "HOST_COHERENT" } }

\* the memoryTypes arrays a device can report (memoryTypeCount = Len): the
\* backend guarantees a host-visible and host-coherent type and a
\* device-local type
Devices ==
    { types \in UNION { [1 .. n -> MemoryTypeFlags] : n \in 0 .. MaxMemoryTypes } :
        /\ \E i \in DOMAIN types : { "HOST_VISIBLE", "HOST_COHERENT" } \subseteq types[i]
        /\ \E i \in DOMAIN types : "DEVICE_LOCAL" \in types[i] }

\* memRequirements.memoryTypeBits, as the set of the indices whose bit is set
TypeFilters == SUBSET (0 .. MaxMemoryTypes - 1)

\* VulkanBuffer::MemoryProperty
MemoryProperty == { "DEVICE_LOCAL", "HOST_VISIBLE", "HOST_COHERENT", "STAGING" }

\* VulkanBuffer::getVulkanMemoryPropertyFlags
GetVulkanMemoryPropertyFlags(property) ==
    IF property = "DEVICE_LOCAL"
    THEN { "DEVICE_LOCAL" }
    ELSE { "HOST_VISIBLE", "HOST_COHERENT" }

\* findMemoryType found no memory type (it throws)
NoMemoryType == -1

\* the loop of VulkanBuffer::findMemoryType from index i on
RECURSIVE FindMemoryTypeFrom(_, _, _, _)
FindMemoryTypeFrom(i, types, typeFilter, properties) ==
    IF i >= Len(types)
    THEN NoMemoryType
    ELSE IF i \in typeFilter /\ properties \subseteq types[i + 1]
         THEN i
         ELSE FindMemoryTypeFrom(i + 1, types, typeFilter, properties)

\* variant of FindMemoryType: the loop skips memory type 0
FindMemoryTypeSkipFirst(types, typeFilter, properties) ==
    FindMemoryTypeFrom(1, types, typeFilter, properties)

\* VulkanBuffer::findMemoryType
FindMemoryType(types, typeFilter, properties) ==
    FindMemoryTypeFrom(0, types, typeFilter, properties)

\* the bytes a buffer holds: 0 is memory nobody wrote yet
Data == 1 .. MaxData
Unwritten == 0

\* a data pointer of nullptr
NullData == -1

\* a VulkanBuffer after its constructor
NewVulkanBuffer ==
    [ device |-> FALSE, buffer |-> NullHandle, memory |-> NullHandle, size |-> 0,
      memoryProperty |-> "DEVICE_LOCAL", mappedMemory |-> FALSE,
      isCoherent |-> FALSE ]

\* the handle the backend gives to a new object: one not in use
FreshHandle(used) ==
    CHOOSE h \in 1 .. Cardinality(used) + 1 :
        h \notin used /\ \A k \in 1 .. h - 1 : k \in used

Extended(f, k, v) == [x \in DOMAIN f \cup {k} |-> IF x = k THEN v ELSE f[x]]
Without(f, k) == [x \in DOMAIN f \ {k} |-> f[x]]

\* A method of VulkanBuffer maps a record s to a record: s.obj is the object,
\* s.vkb and s.vkm are the backend's buffers and memory, s.calls the backend
\* calls made so far and s.threw whether an exception is propagating (a
\* method called while one propagates is not executed).
Started(obj) ==
    [ obj |-> obj, vkb |-> vkBuffers, vkm |-> vkMemory, calls |-> << >>,
      threw |-> FALSE ]

Called(s, name) == [s EXCEPT !.calls = Append(@, name)]
Thrown(s) == [s EXCEPT !.threw = TRUE]

\* the backend calls of VulkanBuffer::create that return a VkResult
CreateCalls == { "vkCreateBuffer", "vkAllocateMemory", "vkBindBufferMemory" }

\* VulkanBuffer::create; fail is the backend call that returns an error
Create(s, size, memoryProperty, typeFilter, fail) ==
    LET s1 == Called([s EXCEPT !.obj.device = TRUE, !.obj.size = size,
                               !.obj.memoryProperty = memoryProperty],
                     "vkCreateBuffer")
        b  == FreshHandle(DOMAIN s.vkb)
        s2 == [s1 EXCEPT !.obj.buffer = b, !.vkb = Extended(@, b, NullHandle)]
        memoryTypeIndex ==
            FindMemoryType(memoryTypes, typeFilter,
                           GetVulkanMemoryPropertyFlags(memoryProperty))
        s3 == Called([s2 EXCEPT !.obj.isCoherent =
                         "HOST_COHERENT" \in memoryTypes[memoryTypeIndex + 1]],
                     "vkAllocateMemory")
        m  == FreshHandle(DOMAIN s.vkm)
        s4 == Called([s3 EXCEPT !.obj.memory = m,
                                !.vkm = Extended(@, m,
                                    [ type |-> memoryTypeIndex,
                                      host |-> Unwritten, device |-> Unwritten ])],
                     "vkBindBufferMemory")
    IN  IF s.threw THEN s
        ELSE IF fail = "vkCreateBuffer" THEN Thrown(s1)
        ELSE IF memoryTypeIndex = NoMemoryType THEN Thrown(s2)
        ELSE IF fail = "vkAllocateMemory" THEN Thrown(s3)
        ELSE IF fail = "vkBindBufferMemory" THEN Thrown(s4)
        ELSE [s4 EXCEPT !.vkb[b] = m]

\* the backend calls of VulkanBuffer::uploadData that return a VkResult
UploadCalls == { "vkMapMemory", "vkFlushMappedMemoryRanges" }

\* VulkanBuffer::map
Map(s, fail) ==
    IF s.threw \/ s.obj.mappedMemory THEN s
    ELSE IF "HOST_VISIBLE" \notin GetVulkanMemoryPropertyFlags(s.obj.memoryProperty)
    THEN Thrown(s)
    ELSE IF fail = "vkMapMemory" THEN Thrown(Called(s, "vkMapMemory"))
    ELSE Called([s EXCEPT !.obj.mappedMemory = TRUE], "vkMapMemory")

\* std::memcpy into the mapped memory: the device sees the bytes at once
\* only if the memory type is host-coherent
Memcpy(s, data) ==
    IF s.threw THEN s
    ELSE Called([s EXCEPT !.vkm[s.obj.memory].host = data,
                          !.vkm[s.obj.memory].device =
                              IF "HOST_COHERENT" \in memoryTypes[s.vkm[s.obj.memory].type + 1]
                              THEN data ELSE @],
                "memcpy")

\* VulkanBuffer::flush
Flush(s, fail) ==
    IF s.threw \/ s.obj.isCoherent THEN s
    ELSE IF fail = "vkFlushMappedMemoryRanges"
    THEN Thrown(Called(s, "vkFlushMappedMemoryRanges"))
    ELSE Called([s EXCEPT !.vkm[s.obj.memory].device = s.vkm[s.obj.memory].host],
                "vkFlushMappedMemoryRanges")

\* VulkanBuffer::unmap
Unmap(s) ==
    IF s.threw \/ ~s.obj.mappedMemory THEN s
    ELSE Called([s EXCEPT !.obj.mappedMemory = FALSE], "vkUnmapMemory")

\* variant of UploadData: the written range is flushed whatever the memory is
UploadDataFlushing(s, data, size, fail) ==
    IF s.threw \/ data = NullData \/ size = 0 THEN s
    ELSE Unmap(Called(Memcpy(Map(s, fail), data), "vkFlushMappedMemoryRanges"))

\* VulkanBuffer::uploadData
UploadData(s, data, size, fail) ==
    IF s.threw \/ data = NullData \/ size = 0 THEN s
    ELSE LET written == Memcpy(Map(s, fail), data)
         IN  Unmap(IF ~written.obj.isCoherent THEN Flush(written, fail) ELSE written)

\* VulkanBuffer::createWithData
CreateWithData(s, data, size, memoryProperty, typeFilter, fail) ==
    UploadData(Create(s, size, memoryProperty, typeFilter, fail), data, size, fail)

\* variant of Cleanup: the members are not tested before the calls
CleanupUnguarded(s) ==
    Called(Called(Called([s EXCEPT !.obj.device = FALSE,
                                   !.obj.mappedMemory = FALSE,
                                   !.obj.buffer = NullHandle,
                                   !.obj.memory = NullHandle,
                                   !.vkb = Without(@, s.obj.buffer),
                                   !.vkm = Without(@, s.obj.memory)],
                         "vkUnmapMemory"), "vkDestroyBuffer"), "vkFreeMemory")

\* VulkanBuffer::cleanup (also run by the destructor); it cannot throw and
\* runs while an exception propagates
Cleanup(s) ==
    IF ~s.obj.device THEN s
    ELSE LET s1 == IF s.obj.mappedMemory
                   THEN Called([s EXCEPT !.obj.mappedMemory = FALSE], "vkUnmapMemory")
                   ELSE s
             s2 == IF s1.obj.buffer # NullHandle
                   THEN Called([s1 EXCEPT !.obj.buffer = NullHandle,
                                          !.vkb = Without(@, s1.obj.buffer)],
                               "vkDestroyBuffer")
                   ELSE s1
             s3 == IF s2.obj.memory # NullHandle
                   THEN Called([s2 EXCEPT !.obj.memory = NullHandle,
                                          !.vkm = Without(@, s2.obj.memory)],
                               "vkFreeMemory")
                   ELSE s2
         IN  [s3 EXCEPT !.obj.device = FALSE]

\* the same method applied to another object: the backend state and the
\* calls made so far carry over
On(s, obj) == [s EXCEPT !.obj = obj]

\* the size every modelled buffer has, in units of one datum
BufferSize == 1

\* no operation on buffers has finished yet
NoBufferOp ==
    [ op |-> "none", result |-> "none", obj |-> "none", slot |-> 0,
      repeat |-> FALSE, data |-> Unwritten,
      typeFilter |-> {}, memoryProperty |-> "DEVICE_LOCAL",
      memoryTypeIndex |-> NoMemoryType ]

\* no copy was ever submitted
NoCopy == [ src |-> NullHandle, dst |-> NullHandle, state |-> "none" ]

\* the locals of the BufferUtils functions and of a caller of createWithData,
\* not yet created: stagingBuffer, the vertex or index buffer that is built
\* and returned, and the buffer createWithData is called on
NoLocals ==
    [ stagingBuffer |-> NewVulkanBuffer, built |-> NewVulkanBuffer,
      temporary |-> NewVulkanBuffer ]

\* the buffers before any of them is created, on a device not yet looked at
NoBuffers ==
    /\ vkBuffers = << >>
    /\ vkMemory = << >>
    /\ uniformBuffers = [i \in Slots |-> NewVulkanBuffer]
    /\ descriptorSets = [i \in Slots |-> NullHandle]
    /\ locals = NoLocals
    /\ copy = NoCopy
    /\ calls = << >>
    /\ bpc = "idle"
    /\ bresult = NoBufferOp

\* ------------------------------------------------- swapchain parameters
\* SwapchainSupportDetails of a surface nobody queried
NoSupport ==
    [ formats |-> << >>, presentModes |-> << >>, minImageCount |-> 0,
      maxImageCount |-> 0, currentExtent |-> UndefinedExtent ]

\* the parameters of a VulkanSwapchain that holds no swapchain
NoParameters ==
    [ swapchain |-> FALSE, imageCount |-> 0, images |-> 0, format |-> "UNDEFINED",
      colorSpace |-> "none", presentMode |-> "none", extent |-> NoExtent ]

\* a device without depth formats whose driver creates the requested images
NoDriver == [ depthFormats |-> {}, extraImages |-> 0 ]

\* the swapchain-dependent objects of an engine that has created none
NoDependents ==
    [ initialized |-> FALSE,
      renderPass |-> FALSE, renderPassDepthFormat |-> "UNDEFINED",
      depthImage |-> FALSE, depthFormat |-> "UNDEFINED", depthExtent |-> NoExtent,
      framebuffers |-> 0, framebufferExtent |-> NoExtent,
      pipeline |-> FALSE, viewportExtent |-> NoExtent ]

NoChain ==
    /\ support = NoSupport
    /\ request = NoExtent
    /\ chain = NoParameters
    /\ chainLog = << >>
    /\ driver = NoDriver
    /\ dependents = NoDependents

\* VkSurfaceFormatKHR values a surface may report
SurfaceFormats ==
    { [ format |-> "B8G8R8A8_SRGB",  colorSpace |-> "SRGB_NONLINEAR" ],
      [ format |-> "R8G8B8A8_SRGB",  colorSpace |-> "SRGB_NONLINEAR" ],
      [ format |-> "B8G8R8A8_UNORM", colorSpace |-> "SRGB_NONLINEAR" ],
      [ format |-> "B8G8R8A8_SRGB",  colorSpace |-> "DISPLAY_P3_NONLINEAR" ] }

PresentModes == { "IMMEDIATE", "MAILBOX", "FIFO" }

\* the lists without repetition of at most n elements of S
ListsOf(S, n) ==
    { l \in UNION { [1 .. k -> S] : k \in 0 .. n } :
        \A i, j \in DOMAIN l : i # j => l[i] # l[j] }

Elements(l) == { l[k] : k \in DOMAIN l }

\* what querySwapchainSupport may return: FIFO is always among the present
\* modes of a surface, maxImageCount is 0 (no limit) or at least
\* minImageCount
Supports ==
    { s \in [ formats : ListsOf(SurfaceFormats, MaxFormats),
              presentModes : ListsOf(PresentModes, Cardinality(PresentModes)),
              minImageCount : 1 .. MaxImageCount,
              maxImageCount : 0 .. MaxImageCount + 1,
              currentExtent : SurfaceExtents ] :
        /\ "FIFO" \in Elements(s.presentModes)
        /\ s.maxImageCount = 0 \/ s.maxImageCount >= s.minImageCount }

\* SwapchainSupportDetails::isAdequate
IsAdequate(s) == s.formats # << >> /\ s.presentModes # << >>

\* the positions of a list that hold a format with the sRGB colour space
Preferred(l, format) ==
    { k \in DOMAIN l : l[k].format = format /\ l[k].colorSpace = "SRGB_NONLINEAR" }

Lowest(S) == CHOOSE k \in S : \A j \in S : k <= j

\* VulkanSwapchain::chooseSurfaceFormat
ChooseSurfaceFormat(availableFormats) ==
    IF Preferred(availableFormats, "B8G8R8A8_SRGB") # {}
    THEN availableFormats[Lowest(Preferred(availableFormats, "B8G8R8A8_SRGB"))]
    ELSE IF Preferred(availableFormats, "R8G8B8A8_SRGB") # {}
    THEN availableFormats[Lowest(Preferred(availableFormats, "R8G8B8A8_SRGB"))]
    ELSE availableFormats[1]

\* VulkanSwapchain::choosePresentMode
ChoosePresentMode(availablePresentModes) ==
    IF "MAILBOX" \in Elements(availablePresentModes) THEN "MAILBOX"
    ELSE IF "IMMEDIATE" \in Elements(availablePresentModes) THEN "IMMEDIATE"
    ELSE "FIFO"

\* variant of ChooseImageCount: the maximum is not looked at
ChooseImageCountUnclamped(capabilities) == capabilities.minImageCount + 1

\* VulkanSwapchain::chooseImageCount
ChooseImageCount(capabilities) ==
    IF capabilities.maxImageCount > 0
       /\ capabilities.minImageCount + 1 > capabilities.maxImageCount
    THEN capabilities.maxImageCount
    ELSE capabilities.minImageCount + 1

\* variant of Parameters: one image more than the previous swapchain had
ParametersAfterPrevious(s, size) ==
    [ swapchain |-> FALSE,
      imageCount |-> IF Len(chainLog) = 0 THEN ChooseImageCount(s)
                     ELSE chainLog[Len(chainLog)].imageCount + 1,
      images |-> 0,
      format |-> ChooseSurfaceFormat(s.formats).format,
      colorSpace |-> ChooseSurfaceFormat(s.formats).colorSpace,
      presentMode |-> ChoosePresentMode(s.presentModes),
      extent |-> ChooseSwapExtent(s.currentExtent, size[1], size[2]) ]

\* VulkanSwapchain::create up to vkCreateSwapchainKHR: the chosen settings
Parameters(s, size) ==
    [ swapchain |-> FALSE,
      imageCount |-> ChooseImageCount(s),
      images |-> 0,
      format |-> ChooseSurfaceFormat(s.formats).format,
      colorSpace |-> ChooseSurfaceFormat(s.formats).colorSpace,
      presentMode |-> ChoosePresentMode(s.presentModes),
      extent |-> ChooseSwapExtent(s.currentExtent, size[1], size[2]) ]

\* VulkanSwapchain::create from vkCreateSwapchainKHR on: the swapchain
\* exists and m_images holds the images the driver created for it
Created(parameters, drv) ==
    [parameters EXCEPT !.swapchain = TRUE,
                       !.images = parameters.imageCount + drv.extraImages]

\* VulkanSwapchain::create when vkCreateSwapchainKHR fails: format and extent
\* are stored already
CreateFailed(parameters) ==
    [NoParameters EXCEPT !.format = parameters.format,
                         !.extent = parameters.extent]

\* ----------------------------------------------------- checked arguments
NoCheckedCall ==
    [ op |-> "none", frames |-> 0, frameIndex |-> 0, first |-> 0, second |-> 0,
      threw |-> FALSE, calls |-> << >> ]

NoChecked ==
    /\ frameSyncObjects = 0
    /\ checked = NoCheckedCall

\* the engine after its constructor
EngineInit ==
    /\ initState = "NOT_INITIALIZED"
    /\ pc = "idle"
    /\ windowWidth = 0
    /\ windowHeight = 0
    /\ currentFrame = 0
    /\ frameCount = 0
    /\ fence = [i \in Slots |-> TRUE]
    /\ pending = [i \in Slots |-> 0]
    /\ alive = {}
    /\ swapchainId = 0
    /\ initStep = 0
    /\ rsCaller = "none"
    /\ clCaller = "none"
    /\ disturb = MaxDisturb
    /\ resets = [i \in Slots |-> 0]
    /\ uboWriters = [b \in Slots |-> {}]
    /\ hazard = FALSE
    /\ busyAtDrain = FALSE
    /\ call = NoCall
    /\ last = NoOp
    /\ renders = 0
    /\ cleanRun = TRUE
    /\ waitedSlots = {}
    /\ submittedSlots = {}
    /\ lastFrameTime = 0
    /\ running = FALSE
    /\ consecutiveErrors = 0
    /\ destroyed = NoneDestroyed
    /\ extent = NoExtent

Init ==
    /\ EngineInit
    /\ memoryTypes = << >>
    /\ NoBuffers
    /\ NoChain
    /\ NoChecked

\* ------------------------------------------------------------------ GPU
\* the GPU finishes the oldest submission of slot i and signals its fence
GpuComplete(i) ==
    /\ pending[i] > 0
    /\ pending' = [pending EXCEPT ![i] = @ - 1]
    /\ fence' = [fence EXCEPT ![i] = TRUE]
    /\ UNCHANGED << engineVars, pc, alive, swapchainId, initStep, rsCaller,
                    clCaller, disturb, resets, uboWriters, hazard,
                    busyAtDrain, call, last,
                    renders, cleanRun,
                    waitedSlots, submittedSlots,
                    lastFrameTime,
                    running, consecutiveErrors,
                    destroyed,
                    extent,
                    bufferVars, chainVars, checkVars >>

\* ------------------------------------------------------------ initialize
\* the steps of initialize(): the objects a step creates, in order, how many
\* of them can exist when the step throws, the value it assigns to
\* m_initState on success, and whether it can throw
InitSteps ==
    << [ creates |-> << "instance" >>,       partial |-> 1, state |-> "INSTANCE_CREATED",        throws |-> TRUE ],
       [ creates |-> << "surface" >>,        partial |-> 0, state |-> "SURFACE_CREATED",         throws |-> TRUE ],
       [ creates |-> << "device" >>,         partial |-> 0, state |-> "DEVICE_CREATED",          throws |-> TRUE ],
       [ creates |-> << "swapchain" >>,      partial |-> 1, state |-> "SWAPCHAIN_CREATED",       throws |-> TRUE ],
       [ creates |-> << "renderPass" >>,     partial |-> 0, state |-> "RENDER_PASS_CREATED",     throws |-> TRUE ],
       [ creates |-> << "depthBuffer", "framebuffers" >>,
                                             partial |-> 2, state |-> "RENDER_PASS_CREATED",     throws |-> TRUE ],
       [ creates |-> << "pipeline" >>,       partial |-> 1, state |-> "PIPELINE_CREATED",        throws |-> TRUE ],
       [ creates |-> << "descriptorPool" >>, partial |-> 1, state |-> "DESCRIPTORS_CREATED",     throws |-> TRUE ],
       [ creates |-> << "commandPool" >>,    partial |-> 1, state |-> "COMMAND_POOL_CREATED",    throws |-> TRUE ],
       [ creates |-> << "buffers", "uniformBuffers" >>,
                                             partial |-> 2, state |-> "BUFFERS_CREATED",         throws |-> TRUE ],
       [ creates |-> << "sync" >>,           partial |-> 1, state |-> "SYNCHRONIZATION_CREATED", throws |-> TRUE ],
       [ creates |-> << "character" >>,      partial |-> 0, state |-> "CHARACTER_LOADED",        throws |-> FALSE ],
       [ creates |-> << >>,                  partial |-> 0, state |-> "FULLY_INITIALIZED",       throws |-> FALSE ] >>

\* the objects of the first n steps of initialize(), in creation order
RECURSIVE CreatedUpTo(_)
CreatedUpTo(n) == IF n = 0 THEN << >> ELSE CreatedUpTo(n - 1) \o InitSteps[n].creates

\* the order in which initialize() creates the engine's objects
CreationOrder == CreatedUpTo(Len(InitSteps))

\* position of object o in the creation order
CreationIndex(o) == CHOOSE i \in 1 .. Len(CreationOrder) : CreationOrder[i] = o

\* the objects created by the steps of initialize() before step n
CompletedBefore(n) == UNION { Range(InitSteps[j].creates) : j \in 1 .. (n - 1) }

\* initialize(window, w, h) is entered: the window size is stored
InitializeBegin(w, h) ==
    /\ pc = "idle"
    /\ initState = "NOT_INITIALIZED"
    /\ windowWidth' = w
    /\ windowHeight' = h
    /\ pc' = "init"
    /\ initStep' = 1
    /\ call' = NoCall
    /\ last' = NoOp
    /\ renders' = 0
    /\ cleanRun' = TRUE
    /\ destroyed' = NoneDestroyed
    /\ UNCHANGED << initState, currentFrame, frameCount, gpuVars, alive,
                    swapchainId, rsCaller, clCaller, disturb, resets,
                    uboWriters, hazard, busyAtDrain,
                    waitedSlots, submittedSlots,
                    lastFrameTime,
                    running, consecutiveErrors,
                    extent,
                    bufferVars, chainVars, checkVars >>

\* VulkanSynchronization::create has run
SyncCreated(objs) == "sync" \in objs

\* variant of CreateFenceInternal: the signalled flag is never set
CreateFenceUnsignaled(signaled) == FALSE

\* createFenceInternal(device, signaled, name): the state of the new fence
CreateFenceInternal(signaled) == signaled

\* VulkanSynchronization::create: the in-flight fence of every slot is
\* created with signaled = true
CreatedFences == [i \in Slots |-> CreateFenceInternal(TRUE)]

\* one step of initialize() succeeds; current is the surface's current
\* extent when the step creates the swapchain; loaded tells whether loadMainCharacter
\* found its model (it catches its own exceptions and falls back to the cube);
\* when the last step returns, Application::initialize sets m_running
InitStepOk(loaded, current) ==
    /\ pc = "init"
    /\ LET step == InitSteps[initStep]
           made == IF step.creates = << "character" >> /\ ~loaded
                   THEN {} ELSE Range(step.creates)
       IN /\ alive' = alive \cup made
          /\ initState' = step.state
          /\ swapchainId' = IF "swapchain" \in made THEN swapchainId + 1 ELSE swapchainId
          /\ IF "swapchain" \in made
             THEN /\ Surprising(current) => disturb > 0
                  /\ disturb' = IF Surprising(current) THEN disturb - 1 ELSE disturb
                  /\ extent' = ChooseSwapExtent(current, windowWidth, windowHeight)
             ELSE /\ current = UndefinedExtent
                  /\ UNCHANGED << disturb, extent >>
          /\ fence' = IF SyncCreated(made) THEN CreatedFences ELSE fence
          /\ waitedSlots' = IF SyncCreated(made) THEN {} ELSE waitedSlots
          /\ submittedSlots' = IF SyncCreated(made) THEN {} ELSE submittedSlots
          /\ resets' = IF SyncCreated(made) THEN [i \in Slots |-> 0] ELSE resets
          /\ uboWriters' = IF "uniformBuffers" \in made THEN [b \in Slots |-> {}] ELSE uboWriters
    /\ IF initStep = Len(InitSteps)
       THEN /\ pc' = "idle"
            /\ initStep' = 0
            /\ last' = [ op |-> "initialize", result |-> "returned" ]
            /\ running' = TRUE
            /\ consecutiveErrors' = 0
       ELSE /\ pc' = "init"
            /\ initStep' = initStep + 1
            /\ last' = last
            /\ UNCHANGED << running, consecutiveErrors >>
    /\ UNCHANGED << windowWidth, windowHeight, currentFrame, frameCount,
                    pending, rsCaller, clCaller, hazard,
                    busyAtDrain, call,
                    renders, cleanRun,
                    lastFrameTime,
                    destroyed,
                    bufferVars, chainVars, checkVars >>

\* one step of initialize() throws after creating the first k of its objects;
\* m_initState keeps the value of the last completed step and the catch
\* block calls cleanup()
InitStepThrow(k) ==
    /\ pc = "init"
    /\ disturb > 0
    /\ InitSteps[initStep].throws
    /\ k <= InitSteps[initStep].partial
    /\ alive' = alive \cup Prefix(InitSteps[initStep].creates, k)
    /\ swapchainId' = IF "swapchain" \in alive' \ alive THEN swapchainId + 1 ELSE swapchainId
    /\ extent' = IF "swapchain" \in alive' \ alive
                 THEN ChooseSwapExtent(UndefinedExtent, windowWidth, windowHeight)
                 ELSE extent
    /\ disturb' = disturb - 1
    /\ pc' = "cl_wait"
    /\ clCaller' = "initialize"
    /\ busyAtDrain' = ~AllIdle
    /\ UNCHANGED << engineVars, gpuVars, initStep, rsCaller, resets,
                    uboWriters, hazard, call, last,
                    renders, cleanRun,
                    waitedSlots, submittedSlots,
                    lastFrameTime,
                    running, consecutiveErrors,
                    destroyed,
                    bufferVars, chainVars, checkVars >>

\* --------------------------------------------------------------- cleanup
\* variant of CleanupOrder: the instance is destroyed first
CleanupOrderInstanceFirst ==
    << [ min |-> "INSTANCE_CREATED",        objs |-> << "instance" >> ],
       [ min |-> "SYNCHRONIZATION_CREATED", objs |-> << "sync" >> ],
       [ min |-> "CHARACTER_LOADED",        objs |-> << "character" >> ],
       [ min |-> "BUFFERS_CREATED",         objs |-> << "buffers", "uniformBuffers" >> ],
       [ min |-> "COMMAND_POOL_CREATED",    objs |-> << "commandPool" >> ],
       [ min |-> "DESCRIPTORS_CREATED",     objs |-> << "descriptorPool" >> ],
       [ min |-> "PIPELINE_CREATED",        objs |-> << "pipeline" >> ],
       [ min |-> "RENDER_PASS_CREATED",     objs |-> << "depthBuffer", "framebuffers", "renderPass" >> ],
       [ min |-> "SWAPCHAIN_CREATED",       objs |-> << "swapchain" >> ],
       [ min |-> "SURFACE_CREATED",         objs |-> << "surface" >> ],
       [ min |-> "DEVICE_CREATED",          objs |-> << "device" >> ] >>

\* cleanup(): the objects destroyed under each `m_initState >= X` test, in
\* the order of the tests and of the destroy calls under each test
CleanupOrder ==
    << [ min |-> "SYNCHRONIZATION_CREATED", objs |-> << "sync" >> ],
       [ min |-> "CHARACTER_LOADED",        objs |-> << "character" >> ],
       [ min |-> "BUFFERS_CREATED",         objs |-> << "buffers", "uniformBuffers" >> ],
       [ min |-> "COMMAND_POOL_CREATED",    objs |-> << "commandPool" >> ],
       [ min |-> "DESCRIPTORS_CREATED",     objs |-> << "descriptorPool" >> ],
       [ min |-> "PIPELINE_CREATED",        objs |-> << "pipeline" >> ],
       [ min |-> "RENDER_PASS_CREATED",     objs |-> << "depthBuffer", "framebuffers", "renderPass" >> ],
       [ min |-> "SWAPCHAIN_CREATED",       objs |-> << "swapchain" >> ],
       [ min |-> "SURFACE_CREATED",         objs |-> << "surface" >> ],
       [ min |-> "DEVICE_CREATED",          objs |-> << "device" >> ],
       [ min |-> "INSTANCE_CREATED",        objs |-> << "instance" >> ] >>

\* the destroy calls cleanup() reaches from its i-th test on when
\* m_initState = s, in order
RECURSIVE CleanupFrom(_, _)
CleanupFrom(i, s) ==
    IF i > Len(CleanupOrder) THEN << >>
    ELSE (IF AtLeast(s, CleanupOrder[i].min) THEN CleanupOrder[i].objs ELSE << >>)
         \o CleanupFrom(i + 1, s)

\* the destroy calls cleanup() reaches when m_initState = s, in order
CleanupSequence(s) == CleanupFrom(1, s)

\* the objects cleanup() destroys when m_initState = s
CleanupDestroys(s) == Range(CleanupSequence(s))

\* the operation that finished last was a cleanup() that ran to its end (on
\* its own or as the unwinding of a failed initialize())
CleanupCompleted ==
    \/ last = [ op |-> "cleanup", result |-> "returned" ]
    \/ last = [ op |-> "initialize", result |-> "threw" ]

\* variant of StateAfterCleanup: m_initState is not reset
StateAfterCleanupKept(s) == s

\* the value cleanup() leaves in m_initState
StateAfterCleanup(s) == "NOT_INITIALIZED"

\* Application::cleanup() calls m_engine.cleanup() at shutdown, after the
\* render loop has ended
CleanupBegin ==
    /\ pc = "idle"
    /\ ~running
    /\ pc' = "cl_wait"
    /\ clCaller' = "shutdown"
    /\ busyAtDrain' = ~AllIdle
    /\ call' = NoCall
    /\ last' = NoOp
    /\ destroyed' = [ NoneDestroyed EXCEPT !.again = CleanupCompleted ]
    /\ UNCHANGED << engineVars, gpuVars, alive, swapchainId, initStep,
                    rsCaller, disturb, resets, uboWriters, hazard,
                    renders, cleanRun,
                    waitedSlots, submittedSlots,
                    lastFrameTime,
                    running, consecutiveErrors,
                    extent,
                    bufferVars, chainVars, checkVars >>

\* ~VulkanEngine() runs when the application object is destroyed, after the
\* render loop has ended: it calls cleanup() and then destroys the members
DestructorBegin ==
    /\ pc = "idle"
    /\ ~running
    /\ pc' = "cl_wait"
    /\ clCaller' = "destructor"
    /\ busyAtDrain' = ~AllIdle
    /\ call' = NoCall
    /\ last' = NoOp
    /\ destroyed' = [ NoneDestroyed EXCEPT !.again = CleanupCompleted ]
    /\ UNCHANGED << engineVars, gpuVars, alive, swapchainId, initStep,
                    rsCaller, disturb, resets, uboWriters, hazard,
                    renders, cleanRun,
                    waitedSlots, submittedSlots,
                    lastFrameTime,
                    running, consecutiveErrors,
                    extent,
                    bufferVars, chainVars, checkVars >>

\* variant of WaitIdleBlocks: the device is never drained
WaitIdleSkipped(objs) == FALSE

\* waitIdle(): vkDeviceWaitIdle is called iff the logical device exists
WaitIdleBlocks(objs) == "device" \in objs

\* variant of CleanupWaits: `==` written for `>=`
CleanupWaitsExact(s) == s = "DEVICE_CREATED"

\* the guard of cleanup()'s waitIdle(): it is called once the device exists
CleanupWaits(s) == AtLeast(s, "DEVICE_CREATED")

\* cleanup(): waitIdle() returns once the device is idle
CleanupWaitIdle ==
    /\ pc = "cl_wait"
    /\ (CleanupWaits(initState) /\ WaitIdleBlocks(alive)) => AllIdle
    /\ pc' = IF AtLeast(initState, "SYNCHRONIZATION_CREATED") THEN "cl_sync" ELSE "cl_destroy"
    /\ destroyed' = [ destroyed EXCEPT !.waits = IF CleanupWaits(initState) THEN @ + 1 ELSE @ ]
    /\ UNCHANGED << engineVars, gpuVars, alive, swapchainId, initStep,
                    rsCaller, clCaller, disturb, resets, uboWriters, hazard,
                    busyAtDrain, call, last,
                    renders, cleanRun,
                    waitedSlots, submittedSlots,
                    lastFrameTime,
                    running, consecutiveErrors,
                    extent,
                    bufferVars, chainVars, checkVars >>

\* cleanup(): vkDeviceWaitIdle fails, VK_CHECK throws and cleanup() is left
\* before anything is destroyed; an exception that leaves the destructor
\* ends the program
CleanupWaitIdleThrow ==
    /\ pc = "cl_wait"
    /\ CleanupWaits(initState)
    /\ WaitIdleBlocks(alive)
    /\ disturb > 0
    /\ disturb' = disturb - 1
    /\ pc' = IF clCaller = "destructor" THEN "gone" ELSE "idle"
    /\ last' = [ op |-> IF clCaller = "initialize" THEN "initialize" ELSE "cleanup",
                 result |-> "cleanup_threw" ]
    /\ clCaller' = "none"
    /\ UNCHANGED << engineVars, gpuVars, alive, swapchainId, initStep,
                    rsCaller, resets, uboWriters, hazard, busyAtDrain, call,
                    renders, cleanRun,
                    waitedSlots, submittedSlots,
                    lastFrameTime,
                    running, consecutiveErrors,
                    destroyed,
                    extent,
                    bufferVars, chainVars, checkVars >>

\* VulkanSynchronization::cleanup(): waitForAllFrames() returns true when
\* every fence is signalled
SyncCleanupWait ==
    /\ pc = "cl_sync"
    /\ \A i \in Slots : fence[i]
    /\ pc' = "cl_destroy"
    /\ destroyed' = [ destroyed EXCEPT !.waits = @ + 1 ]
    /\ UNCHANGED << engineVars, gpuVars, alive, swapchainId, initStep,
                    rsCaller, clCaller, disturb, resets, uboWriters, hazard,
                    busyAtDrain, call, last,
                    renders, cleanRun,
                    waitedSlots, submittedSlots,
                    lastFrameTime,
                    running, consecutiveErrors,
                    extent,
                    bufferVars, chainVars, checkVars >>

\* VulkanSynchronization::cleanup(): waitForAllFrames() reports a timeout;
\* its result is ignored and the destruction goes on
SyncCleanupTimeout ==
    /\ pc = "cl_sync"
    /\ \E i \in Slots : ~fence[i]
    /\ disturb > 0
    /\ disturb' = disturb - 1
    /\ pc' = "cl_destroy"
    /\ destroyed' = [ destroyed EXCEPT !.waits = @ + 1 ]
    /\ UNCHANGED << engineVars, gpuVars, alive, swapchainId, initStep,
                    rsCaller, clCaller, resets, uboWriters, hazard,
                    busyAtDrain, call, last,
                    renders, cleanRun,
                    waitedSlots, submittedSlots,
                    lastFrameTime,
                    running, consecutiveErrors,
                    extent,
                    bufferVars, chainVars, checkVars >>

\* cleanup(): the gated destruction and the final reset of the engine state
CleanupDestroy ==
    /\ pc = "cl_destroy"
    /\ alive' = alive \ CleanupDestroys(initState)
    /\ destroyed' = [ destroyed EXCEPT !.by = "cleanup",
                                       !.log = DestroyLog(CleanupSequence(initState), alive) ]
    /\ initState' = StateAfterCleanup(initState)
    /\ currentFrame' = 0
    /\ frameCount' = 0
    /\ fence' = [i \in Slots |-> TRUE]
    /\ pending' = [i \in Slots |-> 0]
    /\ resets' = [i \in Slots |-> 0]
    /\ uboWriters' = [b \in Slots |-> {}]
    /\ swapchainId' = 0
    /\ extent' = IF "swapchain" \in CleanupDestroys(initState) THEN NoExtent ELSE extent
    /\ pc' = IF clCaller = "destructor" THEN "members" ELSE "idle"
    /\ last' = IF clCaller = "initialize"
               THEN [ op |-> "initialize", result |-> "threw" ]
               ELSE [ op |-> "cleanup", result |-> "returned" ]
    /\ clCaller' = "none"
    /\ renders' = 0
    /\ cleanRun' = TRUE
    /\ waitedSlots' = {}
    /\ submittedSlots' = {}
    /\ UNCHANGED << windowWidth, windowHeight, initStep, rsCaller, disturb,
                    hazard, busyAtDrain, call,
                    lastFrameTime,
                    running, consecutiveErrors,
                    bufferVars, chainVars, checkVars >>

\* the members of VulkanEngine whose destructors call their cleanup(), in
\* the order of their destruction (the reverse of their declaration); the
\* surface, the depth buffer and the descriptor pool are raw handles
MemberDestructionOrder ==
    << "character", "uniformBuffers", "buffers", "sync", "commandPool",
       "pipeline", "framebuffers", "renderPass", "swapchain", "device",
       "instance" >>

\* the end of ~VulkanEngine(): the member destructors destroy what the
\* members still hold; the engine is gone afterwards
MemberDestructors ==
    /\ pc = "members"
    /\ alive' = alive \ Range(MemberDestructionOrder)
    /\ extent' = NoExtent
    /\ destroyed' = [ destroyed EXCEPT !.by = "destructor",
                                       !.log = DestroyLog(MemberDestructionOrder, alive) ]
    /\ pc' = "gone"
    /\ last' = [ op |-> "destructor", result |-> "returned" ]
    /\ UNCHANGED << engineVars, gpuVars, swapchainId, initStep, rsCaller,
                    clCaller, disturb, resets, uboWriters, hazard,
                    busyAtDrain, call, renders, cleanRun, waitedSlots,
                    submittedSlots, lastFrameTime, running,
                    consecutiveErrors,
                    bufferVars, chainVars, checkVars >>

\* ------------------------------------------------------ Application::run
\* the catch block of the render loop: the loop goes on until
\* maxConsecutiveErrors render() calls in a row have thrown
LoopContinues(errors) == errors < maxConsecutiveErrors

\* consecutiveErrors after a render() call of the loop
ErrorsAfter(errors, threw) == IF threw THEN errors + 1 ELSE 0

\* the render loop has seen render() return or throw
LoopAfterRender(threw) ==
    IF running
    THEN /\ running' = LoopContinues(ErrorsAfter(consecutiveErrors, threw))
         /\ consecutiveErrors' = IF LoopContinues(ErrorsAfter(consecutiveErrors, threw))
                                  THEN ErrorsAfter(consecutiveErrors, threw) ELSE 0
    ELSE UNCHANGED << running, consecutiveErrors >>

\* processEvents(): a quit event (or the escape key) ends the render loop
Quit ==
    /\ pc = "idle"
    /\ running
    /\ running' = FALSE
    /\ consecutiveErrors' = 0
    /\ UNCHANGED << engineVars, pc, gpuVars, alive, swapchainId, initStep,
                    rsCaller, clCaller, disturb, resets, uboWriters, hazard,
                    busyAtDrain, call, last, renders, cleanRun, waitedSlots,
                    submittedSlots, lastFrameTime,
                    destroyed,
                    extent,
                    bufferVars, chainVars, checkVars >>

\* ---------------------------------------------------------------- render
RenderOutcome(label) ==
    CASE label = "return_timeout"   -> "timeout"
      [] label = "return_skipped"   -> "skipped_ood"
      [] label = "return_recovered" -> "recovered"
      [] label = "throw"            -> "threw"
      [] OTHER                      -> "running"

ReturnLabels == { "return_timeout", "return_skipped", "return_recovered", "throw" }

\* control passes to position label with call record c; the labels of
\* ReturnLabels leave render(), "hr_throw" leaves handleResize() (whose
\* exception makes Application::handleWindowResize clear m_running)
Land(label, c) ==
    IF label \in ReturnLabels
    THEN /\ pc' = "idle"
         /\ call' = [c EXCEPT !.outcome = RenderOutcome(label)]
         /\ last' = [ op |-> "render",
                      result |-> IF label = "throw" THEN "threw" ELSE "returned" ]
         /\ renders' = 0
         /\ cleanRun' = FALSE
         /\ LoopAfterRender(label = "throw")
    ELSE IF label = "hr_throw"
    THEN /\ pc' = "idle"
         /\ call' = c
         /\ last' = [ op |-> "handleResize", result |-> "threw" ]
         /\ running' = FALSE
         /\ consecutiveErrors' = 0
         /\ UNCHANGED << renders, cleanRun >>
    ELSE /\ pc' = label
         /\ call' = c
         /\ last' = last
         /\ UNCHANGED << renders, cleanRun, running, consecutiveErrors >>

\* render() on an engine that is not FULLY_INITIALIZED throws before the
\* try block
RenderNotInitialized ==
    /\ pc = "idle"
    /\ initState # "FULLY_INITIALIZED"
    /\ call' = [NoCall EXCEPT !.outcome = "threw_uninit", !.prev = call.outcome,
                              !.byLoop = running, !.errorsBefore = consecutiveErrors]
    /\ last' = [ op |-> "render", result |-> "threw" ]
    /\ renders' = 0
    /\ cleanRun' = FALSE
    /\ LoopAfterRender(TRUE)
    /\ UNCHANGED << engineVars, pc, gpuVars, alive, swapchainId, initStep,
                    rsCaller, clCaller, disturb, resets, uboWriters, hazard,
                    busyAtDrain,
                    waitedSlots, submittedSlots,
                    lastFrameTime,
                    destroyed,
                    extent,
                    bufferVars, chainVars, checkVars >>

\* variant of Minimized: both dimensions have to be zero
MinimizedBoth(w, h) == w = 0 /\ h = 0

\* the minimized-window test `width == 0 || height == 0` of render() and
\* handleResize()
Minimized(w, h) == w = 0 \/ h = 0

\* render() with a zero-area window returns at once
RenderMinimized ==
    /\ pc = "idle"
    /\ initState = "FULLY_INITIALIZED"
    /\ Minimized(windowWidth, windowHeight)
    /\ call' = [NoCall EXCEPT !.outcome = "minimized", !.prev = call.outcome,
                              !.slot = currentFrame, !.startCount = frameCount,
                              !.prevChain = swapchainId,
                              !.byLoop = running, !.errorsBefore = consecutiveErrors]
    /\ last' = [ op |-> "render", result |-> "returned" ]
    /\ renders' = 0
    /\ cleanRun' = FALSE
    /\ LoopAfterRender(FALSE)
    /\ UNCHANGED << engineVars, pc, gpuVars, alive, swapchainId, initStep,
                    rsCaller, clCaller, disturb, resets, uboWriters, hazard,
                    busyAtDrain,
                    waitedSlots, submittedSlots,
                    lastFrameTime,
                    destroyed,
                    extent,
                    bufferVars, chainVars, checkVars >>

\* render() passes its initial checks, enters the try block and calls
\* waitForFrame(m_currentFrame)
RenderBegin ==
    /\ pc = "idle"
    /\ initState = "FULLY_INITIALIZED"
    /\ ~Minimized(windowWidth, windowHeight)
    /\ frameCount < MaxFrames
    /\ pc' = "r_wait"
    /\ call' = [NoCall EXCEPT !.outcome = "running", !.prev = call.outcome,
                              !.slot = currentFrame, !.startCount = frameCount,
                              !.prevChain = swapchainId,
                              !.firstWait = (currentFrame \notin waitedSlots),
                              !.byLoop = running, !.errorsBefore = consecutiveErrors]
    /\ waitedSlots' = waitedSlots \cup { currentFrame }
    /\ UNCHANGED submittedSlots
    /\ last' = [ op |-> "render", result |-> "running" ]
    /\ renders' = IF cleanRun THEN renders + 1 ELSE 0
    /\ cleanRun' = cleanRun
    /\ destroyed' = NoneDestroyed
    /\ UNCHANGED << engineVars, gpuVars, alive, swapchainId, initStep,
                    rsCaller, clCaller, disturb, resets, uboWriters, hazard,
                    busyAtDrain,
                    lastFrameTime,
                    running, consecutiveErrors,
                    extent,
                    bufferVars, chainVars, checkVars >>

\* variant of RenderAfterWait: the result of waitForFrame is ignored
RenderAfterWaitIgnored(ok) == "r_acquire"

\* variant of RenderAfterWait: a timed-out wait is treated as an exception
RenderAfterWaitRaises(ok) == IF ok THEN "r_acquire" ELSE "r_catch"

\* `if (!waitForFrame(...)) return;`
RenderAfterWait(ok) == IF ok THEN "r_acquire" ELSE "return_timeout"

\* waitForFrame(m_currentFrame): the fence is signalled, vkWaitForFences
\* returns VK_SUCCESS
WaitForFrameOk ==
    /\ pc = "r_wait"
    /\ fence[currentFrame]
    /\ Land(RenderAfterWait(TRUE), [call EXCEPT !.waited = TRUE])
    /\ UNCHANGED << engineVars, gpuVars, alive, swapchainId, initStep,
                    rsCaller, clCaller, disturb, resets, uboWriters, hazard,
                    busyAtDrain,
                    waitedSlots, submittedSlots,
                    lastFrameTime,
                    destroyed,
                    extent,
                    bufferVars, chainVars, checkVars >>

\* waitForFrame(m_currentFrame): vkWaitForFences returns VK_TIMEOUT while the
\* fence is unsignalled
WaitForFrameTimeout ==
    /\ pc = "r_wait"
    /\ ~fence[currentFrame]
    /\ disturb > 0
    /\ disturb' = disturb - 1
    /\ Land(RenderAfterWait(FALSE), [call EXCEPT !.timedOut = TRUE])
    /\ UNCHANGED << engineVars, gpuVars, alive, swapchainId, initStep,
                    rsCaller, clCaller, resets, uboWriters, hazard,
                    busyAtDrain,
                    waitedSlots, submittedSlots,
                    lastFrameTime,
                    destroyed,
                    extent,
                    bufferVars, chainVars, checkVars >>

\* a backend call of render() fails at position at and VK_CHECK (or the
\* explicit throw) raises inside the try block; listed tells whether the
\* failure is a fatal result of wait, acquire, reset, submit or present
Raise(at, listed) ==
    /\ pc = at
    /\ disturb > 0
    /\ disturb' = disturb - 1
    /\ Land("r_catch", [call EXCEPT !.raised = TRUE,
                                    !.fatal = (@ \/ listed)])
    /\ UNCHANGED << engineVars, gpuVars, alive, swapchainId, initStep,
                    rsCaller, clCaller, resets, uboWriters, hazard,
                    busyAtDrain,
                    waitedSlots, submittedSlots,
                    lastFrameTime,
                    destroyed,
                    extent,
                    bufferVars, chainVars, checkVars >>

\* waitForFrame: vkWaitForFences returns an error
WaitForFrameThrow == Raise("r_wait", TRUE)

\* what render() does with the result of acquireNextImage
AfterAcquire(result) ==
    CASE result = "OUT_OF_DATE"                -> "recreate"
      [] result \notin { "SUCCESS", "SUBOPTIMAL" } -> "throw"
      [] OTHER                                 -> "r_reset"

\* variant of AfterPresent: the test for a failed presentation is missing
AfterPresentUnchecked(result) ==
    CASE result \in { "OUT_OF_DATE", "SUBOPTIMAL" } -> "recreate"
      [] OTHER                                   -> "r_advance"

\* what render() does with the result of presentImage
AfterPresent(result) ==
    CASE result \in { "OUT_OF_DATE", "SUBOPTIMAL" } -> "recreate"
      [] result # "SUCCESS"                      -> "throw"
      [] OTHER                                   -> "r_advance"

Results == { "SUCCESS", "SUBOPTIMAL", "OUT_OF_DATE", "FATAL" }

\* a backend result at position at is handled as handling says: go on,
\* call recreateSwapchain() for caller who, or throw
Dispatch(handling, who, c) ==
    CASE handling = "recreate" ->
            /\ pc' = "rs_wait"
            /\ rsCaller' = who
            /\ busyAtDrain' = ~AllIdle
            /\ call' = [c EXCEPT !.recreated = @ + 1]
            /\ last' = last
            /\ UNCHANGED << renders, cleanRun, running, consecutiveErrors >>
      [] handling = "throw" ->
            /\ Land("r_catch", [c EXCEPT !.raised = TRUE])
            /\ UNCHANGED << rsCaller, busyAtDrain >>
      [] OTHER ->
            /\ Land(handling, c)
            /\ UNCHANGED << rsCaller, busyAtDrain >>

\* acquireNextImage on the current swapchain, any result
AcquireNextImage(result) ==
    /\ pc = "r_acquire"
    /\ result # "SUCCESS" => disturb > 0
    /\ disturb' = IF result = "SUCCESS" THEN disturb ELSE disturb - 1
    /\ Dispatch(AfterAcquire(result), "acquire",
                [call EXCEPT !.acquire = result, !.chain = swapchainId,
                             !.fatal = (@ \/ result = "FATAL")])
    /\ UNCHANGED << engineVars, gpuVars, alive, swapchainId, initStep,
                    clCaller, resets, uboWriters, hazard,
                    waitedSlots, submittedSlots,
                    lastFrameTime,
                    destroyed,
                    extent,
                    bufferVars, chainVars, checkVars >>

\* resetFrameFence(m_currentFrame): vkResetFences succeeds
ResetFrameFence ==
    /\ pc = "r_reset"
    /\ fence' = [fence EXCEPT ![currentFrame] = FALSE]
    /\ resets' = [resets EXCEPT ![currentFrame] = @ + 1]
    /\ Land("r_update", [call EXCEPT !.reset = TRUE])
    /\ UNCHANGED << engineVars, pending, alive, swapchainId, initStep,
                    rsCaller, clCaller, disturb, uboWriters, hazard,
                    busyAtDrain,
                    waitedSlots, submittedSlots,
                    lastFrameTime,
                    destroyed,
                    extent,
                    bufferVars, chainVars, checkVars >>

\* resetFrameFence: vkResetFences fails
ResetFrameFenceThrow == Raise("r_reset", TRUE)

\* updateScene and updateUniformBuffer(m_currentFrame): the CPU writes the
\* uniform buffer of the current slot
UpdateUniformBuffer ==
    /\ pc = "r_update"
    /\ LET b == UniformBufferOf(currentFrame)
       IN /\ uboWriters' = [uboWriters EXCEPT ![b] = @ \cup { currentFrame }]
          /\ hazard' = (hazard \/ \E j \in Slots : pending[j] > 0 /\ UniformBufferOf(j) = b)
    /\ Land("r_record", [call EXCEPT !.updated = TRUE])
    /\ UNCHANGED << engineVars, gpuVars, alive, swapchainId, initStep,
                    rsCaller, clCaller, disturb, resets, busyAtDrain,
                    waitedSlots, submittedSlots,
                    lastFrameTime,
                    destroyed,
                    extent,
                    bufferVars, chainVars, checkVars >>

\* updateUniformBuffer: mapping the buffer memory fails
UpdateUniformBufferThrow == Raise("r_update", FALSE)

\* vkResetCommandBuffer and recordCommandBuffer on the command buffer of the
\* current slot
RecordCommandBuffer ==
    /\ pc = "r_record"
    /\ hazard' = (hazard \/ pending[currentFrame] > 0)
    /\ Land("r_submit", [call EXCEPT !.recorded = TRUE])
    /\ UNCHANGED << engineVars, gpuVars, alive, swapchainId, initStep,
                    rsCaller, clCaller, disturb, resets, uboWriters,
                    busyAtDrain,
                    waitedSlots, submittedSlots,
                    lastFrameTime,
                    destroyed,
                    extent,
                    bufferVars, chainVars, checkVars >>

\* resetting or recording the command buffer fails
RecordCommandBufferThrow == Raise("r_record", FALSE)

\* submitCommandBuffers with fence inFlight[m_currentFrame]
SubmitCommandBuffers ==
    /\ pc = "r_submit"
    /\ pending' = [pending EXCEPT ![currentFrame] = @ + 1]
    /\ resets' = [resets EXCEPT ![currentFrame] = 0]
    /\ submittedSlots' = submittedSlots \cup { currentFrame }
    /\ UNCHANGED waitedSlots
    /\ Land("r_present", [call EXCEPT !.submitted = TRUE])
    /\ UNCHANGED << engineVars, fence, alive, swapchainId, initStep,
                    rsCaller, clCaller, disturb, uboWriters, hazard,
                    busyAtDrain,
                    lastFrameTime,
                    destroyed,
                    extent,
                    bufferVars, chainVars, checkVars >>

\* vkQueueSubmit fails
SubmitCommandBuffersThrow == Raise("r_submit", TRUE)

\* presentImage, any result
PresentImage(result) ==
    /\ pc = "r_present"
    /\ result # "SUCCESS" => disturb > 0
    /\ disturb' = IF result = "SUCCESS" THEN disturb ELSE disturb - 1
    /\ Dispatch(AfterPresent(result), "present",
                [call EXCEPT !.present = result,
                             !.fatal = (@ \/ result = "FATAL")])
    /\ UNCHANGED << engineVars, gpuVars, alive, swapchainId, initStep,
                    clCaller, resets, uboWriters, hazard,
                    waitedSlots, submittedSlots,
                    lastFrameTime,
                    destroyed,
                    extent,
                    bufferVars, chainVars, checkVars >>

\* variant of FrameCountAfter: the counter wraps around like the slot index
FrameCountWrapped(n) == (n + 1) % MAX_FRAMES_IN_FLIGHT

\* `m_frameCount++`
FrameCountAfter(n) == n + 1

\* variant of NextFrameIndex: the slot index is never advanced
NextFrameIndexStuck(f) == f

\* variant of NextFrameIndex: the index is not wrapped
NextFrameIndexUnwrapped(f) == f + 1

\* `m_currentFrame = (m_currentFrame + 1) % MAX_FRAMES_IN_FLIGHT`
NextFrameIndex(f) == (f + 1) % MAX_FRAMES_IN_FLIGHT

\* wait, acquire, submit and present of the call recorded in c all returned
\* VK_SUCCESS
AllSucceeded(c) ==
    /\ c.waited /\ c.submitted /\ ~c.raised
    /\ c.acquire = "SUCCESS" /\ c.present = "SUCCESS"

\* the end of the try block: move to the next slot, count the frame and
\* store its measured duration d
AdvanceFrame(d) ==
    /\ pc = "r_advance"
    /\ lastFrameTime' = d
    /\ currentFrame' = NextFrameIndex(currentFrame)
    /\ frameCount' = FrameCountAfter(frameCount)
    /\ pc' = "idle"
    /\ call' = [call EXCEPT !.outcome = "completed"]
    /\ last' = [ op |-> "render", result |-> "returned" ]
    /\ LoopAfterRender(FALSE)
    /\ cleanRun' = (cleanRun /\ AllSucceeded(call))
    /\ renders' = IF cleanRun /\ AllSucceeded(call) THEN renders ELSE 0
    /\ UNCHANGED << initState, windowWidth, windowHeight, gpuVars, alive,
                    swapchainId, initStep, rsCaller, clCaller, disturb,
                    resets, uboWriters, hazard, busyAtDrain,
                    waitedSlots, submittedSlots,
                    destroyed,
                    extent,
                    bufferVars, chainVars, checkVars >>

\* the catch block of render(): recover by recreating the swapchain
RenderCatch ==
    /\ pc = "r_catch"
    /\ pc' = "rs_wait"
    /\ rsCaller' = "recovery"
    /\ busyAtDrain' = ~AllIdle
    /\ call' = [call EXCEPT !.recoveries = @ + 1, !.recreated = @ + 1]
    /\ UNCHANGED << engineVars, gpuVars, alive, swapchainId, initStep,
                    clCaller, disturb, resets, uboWriters, hazard, last,
                    renders, cleanRun,
                    waitedSlots, submittedSlots,
                    lastFrameTime,
                    running, consecutiveErrors,
                    destroyed,
                    extent,
                    bufferVars, chainVars, checkVars >>

\* ----------------------------------------------------- recreateSwapchain
\* variant of RecreateReturnTo: after a successful recovery the frame is
\* retried from the fence reset
RecreateReturnRetry(caller) ==
    CASE caller = "acquire"  -> "return_skipped"
      [] caller = "present"  -> "r_advance"
      [] caller = "recovery" -> "r_reset"
      [] OTHER               -> "hr_setup"

\* variant of RecreateReturnTo: the `return` after the recreation on
\* OUT_OF_DATE acquisition is missing
RecreateReturnFallThrough(caller) ==
    CASE caller = "acquire"  -> "r_reset"
      [] caller = "present"  -> "r_advance"
      [] caller = "recovery" -> "return_recovered"
      [] OTHER               -> "hr_setup"

\* variant of RecreateReturnTo: render() returns right after the recreation
\* that follows presentation
RecreateReturnEarly(caller) ==
    CASE caller = "acquire"  -> "return_skipped"
      [] caller = "present"  -> "return_skipped"
      [] caller = "recovery" -> "return_recovered"
      [] OTHER               -> "hr_setup"

\* where control goes when recreateSwapchain() returns to its caller
RecreateReturnTo(caller) ==
    CASE caller = "acquire"  -> "return_skipped"
      [] caller = "present"  -> "r_advance"
      [] caller = "recovery" -> "return_recovered"
      [] OTHER               -> "hr_setup"

\* variant of RecreateThrowTo: a failed recovery is swallowed
RecreateThrowSwallowed(caller) ==
    CASE caller \in { "acquire", "present" } -> "r_catch"
      [] caller = "recovery"                 -> "return_recovered"
      [] OTHER                               -> "hr_throw"

\* where control goes when recreateSwapchain() throws
RecreateThrowTo(caller) ==
    CASE caller \in { "acquire", "present" } -> "r_catch"
      [] caller = "recovery"                 -> "throw"
      [] OTHER                               -> "hr_throw"

\* the call record after recreateSwapchain() threw for caller
AfterRecreateThrow(caller, c) ==
    IF caller = "recovery" THEN [c EXCEPT !.recoveryThrew = TRUE]
    ELSE IF caller \in { "acquire", "present" } THEN [c EXCEPT !.raised = TRUE]
    ELSE c

\* recreateSwapchain(): waitIdle() returns once the device is idle
RecreateWaitIdle ==
    /\ pc = "rs_wait"
    /\ WaitIdleBlocks(alive) => AllIdle
    /\ pc' = "rs_destroy"
    /\ UNCHANGED << engineVars, gpuVars, alive, swapchainId, initStep,
                    rsCaller, clCaller, disturb, resets, uboWriters, hazard,
                    busyAtDrain, call, last,
                    renders, cleanRun,
                    waitedSlots, submittedSlots,
                    lastFrameTime,
                    running, consecutiveErrors,
                    destroyed,
                    extent,
                    bufferVars, chainVars, checkVars >>

\* recreateSwapchain(): vkDeviceWaitIdle fails and VK_CHECK throws
RecreateWaitIdleThrow ==
    /\ pc = "rs_wait"
    /\ WaitIdleBlocks(alive)
    /\ disturb > 0
    /\ disturb' = disturb - 1
    /\ Land(RecreateThrowTo(rsCaller), AfterRecreateThrow(rsCaller, call))
    /\ rsCaller' = "none"
    /\ UNCHANGED << engineVars, gpuVars, alive, swapchainId, initStep,
                    clCaller, resets, uboWriters, hazard, busyAtDrain,
                    waitedSlots, submittedSlots,
                    lastFrameTime,
                    destroyed,
                    extent,
                    bufferVars, chainVars, checkVars >>

\* the order of the destroy calls of recreateSwapchain()
RecreateDestroyOrder ==
    << "framebuffers", "renderPass", "pipeline", "depthBuffer", "swapchain" >>

\* recreateSwapchain(): framebuffers, render pass, pipeline, depth buffer and
\* swapchain are destroyed
RecreateDestroy ==
    /\ pc = "rs_destroy"
    /\ alive' = alive \ Range(RecreateDestroyOrder)
    /\ extent' = NoExtent
    /\ destroyed' = [ destroyed EXCEPT !.by = "recreateSwapchain",
                                       !.log = DestroyLog(RecreateDestroyOrder, alive) ]
    /\ pc' = "rs_create"
    /\ UNCHANGED << engineVars, gpuVars, swapchainId, initStep, rsCaller,
                    clCaller, disturb, resets, uboWriters, hazard,
                    busyAtDrain, call, last,
                    renders, cleanRun,
                    waitedSlots, submittedSlots,
                    lastFrameTime,
                    running, consecutiveErrors,
                    bufferVars, chainVars, checkVars >>

\* recreateSwapchain(): swapchain and dependents are created again for the
\* stored window size, while the surface's current extent is current
RecreateCreate(current) ==
    /\ pc = "rs_create"
    /\ alive' = alive \cup Range(SwapchainDependents)
    /\ swapchainId' = swapchainId + 1
    /\ Surprising(current) => disturb > 0
    /\ disturb' = IF Surprising(current) THEN disturb - 1 ELSE disturb
    /\ extent' = ChooseSwapExtent(current, windowWidth, windowHeight)
    /\ Land(RecreateReturnTo(rsCaller), call)
    /\ rsCaller' = "none"
    /\ UNCHANGED << engineVars, gpuVars, initStep, clCaller,
                    resets, uboWriters, hazard, busyAtDrain,
                    waitedSlots, submittedSlots,
                    lastFrameTime,
                    destroyed,
                    bufferVars, chainVars, checkVars >>

\* recreateSwapchain(): a creation step throws after k objects were created
RecreateCreateThrow(k) ==
    /\ pc = "rs_create"
    /\ disturb > 0
    /\ disturb' = disturb - 1
    /\ alive' = alive \cup Prefix(SwapchainDependents, k)
    /\ swapchainId' = IF k > 0 THEN swapchainId + 1 ELSE swapchainId
    /\ extent' = IF k > 0
                 THEN ChooseSwapExtent(UndefinedExtent, windowWidth, windowHeight)
                 ELSE extent
    /\ Land(RecreateThrowTo(rsCaller), AfterRecreateThrow(rsCaller, call))
    /\ rsCaller' = "none"
    /\ UNCHANGED << engineVars, gpuVars, initStep, clCaller, resets,
                    uboWriters, hazard, busyAtDrain,
                    waitedSlots, submittedSlots,
                    lastFrameTime,
                    destroyed,
                    bufferVars, chainVars, checkVars >>

\* variant of ZeroSized: only a window without any area is skipped
ZeroSizedBoth(newWidth, newHeight) == newWidth = 0 /\ newHeight = 0

\* the test `newWidth == 0 || newHeight == 0` of handleResize()
ZeroSized(newWidth, newHeight) == newWidth = 0 \/ newHeight = 0

\* ---------------------------------------------------------- handleResize
\* handleResize with a zero dimension returns without touching the engine
HandleResizeZero(w, h) ==
    /\ pc = "idle"
    /\ initState = "FULLY_INITIALIZED"
    /\ ZeroSized(w, h)
    /\ call' = NoCall
    /\ last' = [ op |-> "handleResize", result |-> "returned" ]
    /\ UNCHANGED << engineVars, pc, gpuVars, alive, swapchainId, initStep,
                    rsCaller, clCaller, disturb, resets, uboWriters, hazard,
                    busyAtDrain,
                    renders, cleanRun,
                    waitedSlots, submittedSlots,
                    lastFrameTime,
                    running, consecutiveErrors,
                    destroyed,
                    extent,
                    bufferVars, chainVars, checkVars >>

\* handleResize(w, h) stores the new size
HandleResize(w, h) ==
    /\ pc = "idle"
    /\ initState = "FULLY_INITIALIZED"
    /\ ~ZeroSized(w, h)
    /\ disturb > 0
    /\ disturb' = disturb - 1
    /\ windowWidth' = w
    /\ windowHeight' = h
    /\ pc' = "hr_wait"
    /\ busyAtDrain' = ~AllIdle
    /\ call' = NoCall
    /\ last' = [ op |-> "handleResize", result |-> "running" ]
    /\ destroyed' = NoneDestroyed
    /\ UNCHANGED << initState, currentFrame, frameCount, gpuVars, alive,
                    swapchainId, initStep, rsCaller, clCaller, resets,
                    uboWriters, hazard,
                    renders, cleanRun,
                    waitedSlots, submittedSlots,
                    lastFrameTime,
                    running, consecutiveErrors,
                    extent,
                    bufferVars, chainVars, checkVars >>

\* handleResize: waitIdle() returns, recreateSwapchain() is called
HandleResizeWaitIdle ==
    /\ pc = "hr_wait"
    /\ WaitIdleBlocks(alive) => AllIdle
    /\ pc' = "rs_wait"
    /\ rsCaller' = "resize"
    /\ UNCHANGED << engineVars, gpuVars, alive, swapchainId, initStep,
                    clCaller, disturb, resets, uboWriters, hazard,
                    busyAtDrain, call, last,
                    renders, cleanRun,
                    waitedSlots, submittedSlots,
                    lastFrameTime,
                    running, consecutiveErrors,
                    destroyed,
                    extent,
                    bufferVars, chainVars, checkVars >>

\* handleResize: waitIdle() throws
HandleResizeWaitIdleThrow ==
    /\ pc = "hr_wait"
    /\ WaitIdleBlocks(alive)
    /\ disturb > 0
    /\ disturb' = disturb - 1
    /\ Land("hr_throw", call)
    /\ UNCHANGED << engineVars, gpuVars, alive, swapchainId, initStep,
                    rsCaller, clCaller, resets, uboWriters, hazard,
                    busyAtDrain,
                    waitedSlots, submittedSlots,
                    lastFrameTime,
                    destroyed,
                    extent,
                    bufferVars, chainVars, checkVars >>

\* handleResize: setupScene() after the recreation, then return
HandleResizeSetup ==
    /\ pc = "hr_setup"
    /\ pc' = "idle"
    /\ last' = [ op |-> "handleResize", result |-> "returned" ]
    /\ UNCHANGED << engineVars, gpuVars, alive, swapchainId, initStep,
                    rsCaller, clCaller, disturb, resets, uboWriters, hazard,
                    busyAtDrain, call,
                    renders, cleanRun,
                    waitedSlots, submittedSlots,
                    lastFrameTime,
                    running, consecutiveErrors,
                    destroyed,
                    extent,
                    bufferVars, chainVars, checkVars >>

\* ---------------------------------------------------------------- claims
\* the render() call recorded in call has returned or thrown
Finished == call.outcome \in { "timeout", "skipped_ood", "completed", "recovered", "threw" }

\* the control thread is between the fence reset and the queue submit
InWriteRegion == pc \in { "r_update", "r_record", "r_submit" }

Advanced ==
    /\ currentFrame = (call.slot + 1) % MAX_FRAMES_IN_FLIGHT
    /\ frameCount = call.startCount + 1

NotAdvanced ==
    /\ currentFrame = call.slot
    /\ frameCount = call.startCount

\* submissions outstanding in the slots below n
RECURSIVE TotalPending(_)
TotalPending(n) == IF n = 0 THEN 0 ELSE pending[n - 1] + TotalPending(n - 1)

\* C1: in every render() call the slot's fence is reset only after
\* waitForFrame returned true and the command buffer is submitted only after
\* that reset, in the same call; the fence of a slot is reset at most once
\* between two submissions into the slot, and it is unsignalled when the
\* submission is made.
C1_WaitResetSubmitOrder ==
    /\ \A i \in Slots : resets[i] <= 1
    /\ call.reset => call.waited
    /\ call.submitted => (call.reset /\ call.waited)
    /\ InWriteRegion => (call.reset /\ ~fence[currentFrame] /\ resets[currentFrame] = 1)

\* C1 witness: slot 0 has been submitted into for the second time
C1_Witness ==
    /\ pc = "r_present"
    /\ call.slot = 0
    /\ call.startCount = MAX_FRAMES_IN_FLIGHT
    /\ call.submitted

\* C2: every frame slot has at most one submission the GPU has not
\* finished, so at most MAX_FRAMES_IN_FLIGHT submissions are outstanding.
C2_OneOutstandingPerSlot ==
    /\ \A i \in Slots : pending[i] <= 1
    /\ TotalPending(MAX_FRAMES_IN_FLIGHT) <= MAX_FRAMES_IN_FLIGHT

\* C2 witness: both slots have a submission outstanding
C2_Witness == \A i \in Slots : pending[i] = 1

\* C3: the CPU writes the uniform buffer of the current slot and re-records
\* its command buffer only while no submission of that slot is pending, and
\* no uniform buffer is written on behalf of two slots.
C3_NoCpuGpuWriteOverlap ==
    /\ ~hazard
    /\ InWriteRegion => pending[currentFrame] = 0
    /\ \A b \in Slots : Cardinality(uboWriters[b]) <= 1

\* C3 witness: slot 1 is being recorded while the submission of slot 0 is
\* still executing, and both slots have written their uniform buffer
C3_Witness ==
    /\ pc = "r_record"
    /\ currentFrame = 1
    /\ pending[0] = 1
    /\ uboWriters[UniformBufferOf(0)] = { 0 }
    /\ uboWriters[UniformBufferOf(1)] = { 1 }

\* C4: a render() call whose image acquisition returned OUT_OF_DATE never
\* resets the fence, writes, records, submits or presents, and leaves the
\* slot index and the frame counter unchanged; when it returns after the
\* recreation, the swapchain and its dependents exist and are new and the
\* fence of the current slot is still signalled, so the following render()
\* call passes its wait at once and acquires from the recreated chain.
C4_OutOfDateAcquireSkipsFrame ==
    /\ call.acquire = "OUT_OF_DATE" =>
          /\ ~call.reset /\ ~call.updated /\ ~call.recorded /\ ~call.submitted
          /\ call.present = "none"
          /\ call.recreated >= 1
          /\ NotAdvanced
    /\ call.outcome = "skipped_ood" =>
          /\ call.acquire = "OUT_OF_DATE"
          /\ pc = "idle" /\ last = [ op |-> "render", result |-> "returned" ]
          /\ fence[currentFrame]
          /\ swapchainId > call.prevChain
          /\ Range(SwapchainDependents) \subseteq alive
    /\ (call.prev = "skipped_ood" /\ pc = "r_wait") => fence[currentFrame]
    /\ (call.prev = "skipped_ood" /\ call.acquire \in { "SUCCESS", "SUBOPTIMAL" }) =>
          call.chain = call.prevChain

\* C4 witness: the call after a skipped one completed the whole protocol
C4_Witness ==
    /\ call.prev = "skipped_ood"
    /\ call.outcome = "completed"
    /\ call.submitted
    /\ call.chain = call.prevChain

\* C5 as stated: after presentation returned OUT_OF_DATE or SUBOPTIMAL the
\* recreation follows the submission and the same call always advances the
\* slot index and the frame counter.
C5_PresentRecreateAlwaysAdvances ==
    /\ (rsCaller = "present") => call.submitted
    /\ (call.present \in { "OUT_OF_DATE", "SUBOPTIMAL" } /\ Finished) => Advanced

\* C5 amended: the recreation that follows an OUT_OF_DATE or SUBOPTIMAL
\* presentation happens after the submission; the call advances the slot
\* index and the frame counter if that recreation returns, and leaves both
\* unchanged (ending in the recovery path) if the recreation throws.
C5_PresentRecreateAdvancesUnlessThrow ==
    /\ (rsCaller = "present") => call.submitted
    /\ (call.present \in { "OUT_OF_DATE", "SUBOPTIMAL" } /\ Finished /\ ~call.raised) =>
          (Advanced /\ call.outcome = "completed" /\ call.recreated = 1)
    /\ (call.present \in { "OUT_OF_DATE", "SUBOPTIMAL" } /\ Finished /\ call.raised) =>
          (NotAdvanced /\ call.outcome \in { "recovered", "threw" })

\* C5 witness: a call whose presentation was SUBOPTIMAL recreated the chain
\* and advanced
C5_Witness ==
    /\ call.present = "SUBOPTIMAL"
    /\ call.outcome = "completed"
    /\ call.recreated = 1
    /\ Advanced

\* C6: once an exception was raised inside the try block of render(), the
\* recovery recreateSwapchain() is attempted exactly once; the call returns
\* normally iff the recovery returned and throws to the caller iff the
\* recovery threw; without a raised exception no recovery is attempted and
\* nothing is thrown.
C6_SingleRecoveryAttempt ==
    /\ call.recoveries <= 1
    /\ call.recoveryThrew => call.recoveries = 1
    /\ call.recoveries = 1 => call.raised
    /\ (Finished /\ call.raised) =>
          /\ call.recoveries = 1
          /\ (call.outcome = "threw") <=> call.recoveryThrew
          /\ (call.outcome = "recovered") <=> ~call.recoveryThrew
          /\ (last.result = "threw") <=> call.recoveryThrew
    /\ (Finished /\ ~call.raised) =>
          /\ call.recoveries = 0
          /\ call.outcome \in { "timeout", "skipped_ood", "completed" }
          /\ last.result = "returned"

\* C6 witness: the recovery itself threw and the exception left render()
C6_Witness ==
    /\ call.raised
    /\ call.recoveryThrew
    /\ call.outcome = "threw"
    /\ last = [ op |-> "render", result |-> "threw" ]

\* C7 as stated: a fatal backend result during render() always reaches the
\* caller as a thrown error.
C7_FatalAlwaysPropagates ==
    (call.fatal /\ Finished) => last = [ op |-> "render", result |-> "threw" ]

\* C7 amended: a fatal backend result is raised inside render() and handled
\* by its catch block; it reaches the caller only if the recovery
\* recreateSwapchain() throws too, otherwise render() returns normally with
\* the slot index and the frame counter unchanged.
C7_FatalRaisedAndRecovered ==
    /\ call.fatal => (call.raised /\ call.outcome \in { "running", "recovered", "threw" })
    /\ (call.fatal /\ call.outcome = "threw") => call.recoveryThrew
    /\ (call.fatal /\ call.outcome = "recovered") =>
          /\ ~call.recoveryThrew
          /\ last = [ op |-> "render", result |-> "returned" ]
          /\ NotAdvanced

\* C7 witness: a fatal presentation result was recovered from
C7_Witness ==
    /\ call.fatal
    /\ call.present = "FATAL"
    /\ call.outcome = "recovered"

\* C8 as stated: after initialize() threw and its cleanup() ran, the engine
\* is NOT_INITIALIZED and no object created by the steps that had run
\* before the failing one exists any more.
C8_FailedInitializeUnwindsAll ==
    (last = [ op |-> "initialize", result |-> "threw" ]) =>
        /\ initState = "NOT_INITIALIZED"
        /\ CompletedBefore(initStep) \cap alive = {}

\* C9: recreateSwapchain() destroys the swapchain and its dependents only
\* when no frame slot has an outstanding submission.
C9_RecreateDestroysAfterDrain ==
    (pc = "rs_destroy") => AllIdle

\* C9 witness: the recreation after presentation is about to destroy, and
\* the frame just submitted was outstanding when the drain began
C9_Witness ==
    /\ pc = "rs_destroy"
    /\ rsCaller = "present"
    /\ busyAtDrain
    /\ call.submitted

\* C10: cleanup() destroys its first resource only when no frame slot has
\* an outstanding submission.
C10_CleanupDestroysAfterDrain ==
    (pc = "cl_destroy") => AllIdle

\* C10 witness: shutdown of a fully initialized engine that had work
\* outstanding when cleanup() was called is about to destroy
C10_Witness ==
    /\ pc = "cl_destroy"
    /\ clCaller = "shutdown"
    /\ initState = "FULLY_INITIALIZED"
    /\ busyAtDrain

\* C11: on an engine initialized from scratch, after k render() calls in each
\* of which wait, acquire, submit and present succeeded, the frame counter
\* is k, the slot index is k mod MAX_FRAMES_IN_FLIGHT, and render() has not
\* thrown.
C11_CountersAfterSuccessfulRenders ==
    (pc = "idle" /\ initState = "FULLY_INITIALIZED" /\ cleanRun) =>
        /\ frameCount = renders
        /\ currentFrame = renders % MAX_FRAMES_IN_FLIGHT
        /\ last # [ op |-> "render", result |-> "threw" ]

\* C11 witness: more successful calls than there are slots, so the slot
\* index has wrapped around
C11_Witness ==
    /\ pc = "idle"
    /\ initState = "FULLY_INITIALIZED"
    /\ cleanRun
    /\ renders = MAX_FRAMES_IN_FLIGHT + 1
    /\ call.outcome = "completed"

\* C12: VulkanSynchronization::create leaves the fence of every slot
\* signalled, and the first waitForFrame(i) on a slot after the creation
\* finds the fence signalled with no submission made into the slot, so it
\* returns true: it never times out, and it ends otherwise only when
\* vkWaitForFences itself reports an error.
C12_FirstWaitReturnsAtOnce ==
    /\ (pc = "init" /\ SyncCreated(alive)) => \A i \in Slots : fence[i]
    /\ (call.firstWait /\ pc = "r_wait") =>
          (fence[call.slot] /\ call.slot \notin submittedSlots /\ pending[call.slot] = 0)
    /\ call.firstWait => call.outcome # "timeout"
    /\ (call.firstWait /\ pc # "r_wait" /\ ~call.waited) => (call.raised /\ call.fatal)

\* C12 witness: the first wait on slot 1 has returned true while nothing
\* was ever submitted into slot 1
C12_Witness ==
    /\ call.firstWait
    /\ call.slot = 1
    /\ call.waited
    /\ pc = "r_acquire"
    /\ 1 \notin submittedSlots
    /\ 0 \in submittedSlots

\* a step that is a render() call made from the idle position
RenderCalled ==
    /\ pc = "idle"
    /\ last'.op = "render"
    /\ << call, last >>' # << call, last >>

\* C13: a render() call made on a fully initialized engine whose stored
\* window width or height is zero returns at once: it performs no wait,
\* acquire, fence reset, submit or present, and it leaves the slot index,
\* the frame counter, the last-frame duration, every fence and the GPU's
\* outstanding work unchanged.
C13_MinimizedRenderTouchesNothing ==
    [][ ( /\ RenderCalled
          /\ initState = "FULLY_INITIALIZED"
          /\ (windowWidth = 0 \/ windowHeight = 0) ) =>
        ( /\ pc' = "idle"
          /\ last' = [ op |-> "render", result |-> "returned" ]
          /\ ~call'.waited /\ call'.acquire = "none" /\ ~call'.reset
          /\ ~call'.submitted /\ call'.present = "none"
          /\ UNCHANGED << currentFrame, frameCount, lastFrameTime, fence,
                          pending, resets, waitedSlots, submittedSlots,
                          alive, swapchainId,
                    running, consecutiveErrors,
                    destroyed,
                    extent >> ) ]_vars

\* C13 witness: render() has returned from the minimized-window test of an
\* engine that was initialized with a zero height
C13_Witness ==
    /\ call.outcome = "minimized"
    /\ initState = "FULLY_INITIALIZED"
    /\ windowWidth # 0
    /\ windowHeight = 0
    /\ last = [ op |-> "render", result |-> "returned" ]

\* C14: when vkWaitForFences reports a timeout, waitForFrame returns false
\* without throwing and render() returns normally at once: no image is
\* acquired, the fence is not reset, nothing is recorded, submitted or
\* presented, no recovery is attempted, and the slot index and the frame
\* counter keep their values.
C14_WaitTimeoutSkipsFrame ==
    call.timedOut =>
        /\ pc = "idle"
        /\ call.outcome = "timeout"
        /\ last = [ op |-> "render", result |-> "returned" ]
        /\ ~call.raised /\ call.recoveries = 0 /\ call.recreated = 0
        /\ ~call.waited /\ call.acquire = "none" /\ ~call.reset
        /\ ~call.updated /\ ~call.recorded /\ ~call.submitted
        /\ call.present = "none"
        /\ NotAdvanced

\* C14 witness: a render() call has returned after its fence wait timed out
C14_Witness ==
    /\ call.timedOut
    /\ call.outcome = "timeout"
    /\ pc = "idle"
    /\ initState = "FULLY_INITIALIZED"

\* C15 as stated: the render loop never calls render() again once a
\* render() call has thrown to it.
C15_LoopStopsOnFirstThrow ==
    ~(call.byLoop /\ call.errorsBefore > 0)

\* the objects of the log, in the order of their destruction
Objs(log) == [ i \in DOMAIN log |-> log[i].obj ]

\* pairs << a, b >> of objects that cleanup() destroys in the order a, b
\* although initialize() creates them in the order a, b as well
SameOrderPairs ==
    { << "sync", "character" >>, << "buffers", "uniformBuffers" >>,
      << "depthBuffer", "framebuffers" >>, << "surface", "device" >> }

DependsOn ==
    { << "swapchain", "device" >>, << "commandPool", "device" >>,
      << "buffers", "device" >>, << "uniformBuffers", "device" >>,
      << "framebuffers", "swapchain" >>,
      << "commandPool", "buffers" >>, << "commandPool", "uniformBuffers" >> }

\* C17 as stated: on every destruction path (cleanup(), recreateSwapchain(),
\* the unwinding of a failed initialize(), the member destructors) no object
\* is destroyed while an object that depends on it still exists.
C17_NoObjectOutlivesItsDependency ==
    \A i \in DOMAIN destroyed.log :
        \A o \in destroyed.log[i].left :
            << o, destroyed.log[i].obj >> \notin DependsOn

\* C18: cleanup() is idempotent - a cleanup() call (explicit or made by the
\* destructor) that follows a completed cleanup() finds the engine
\* NOT_INITIALIZED, calls neither waitIdle() nor waitForAllFrames(), makes
\* no destroy call, and leaves the engine NOT_INITIALIZED.
C18_CleanupIdempotent ==
    (destroyed.again /\ destroyed.by \in { "none", "cleanup" }) =>
        /\ initState = "NOT_INITIALIZED"
        /\ destroyed.waits = 0
        /\ destroyed.log = << >>
        /\ pc \in { "cl_wait", "cl_destroy", "idle", "members" }
        /\ last.result # "cleanup_threw"

\* C18 witness: the cleanup() of the destructor has run to its end after an
\* explicit cleanup() that destroyed a fully initialized engine
C18_Witness ==
    /\ destroyed.again
    /\ destroyed.by = "cleanup"
    /\ pc = "members"
    /\ alive = {}

\* C19 as stated: no frame is rendered against a swapchain whose extent
\* differs from the stored window size - a frame is submitted and presented
\* only while the two are equal.
C19_NoFrameOnMismatchingChain ==
    (pc = "r_present") => extent = << windowWidth, windowHeight >>

\* C20 as stated: the frame counter never decreases in any step of any
\* engine operation; it is never reset.
C20_FrameCountNeverDecreases ==
    [][ frameCount' >= frameCount ]_vars

\* C20 amended: the frame counter never decreases while the engine stays
\* initialized - render() only ever adds one to it and initialize(),
\* handleResize() and recreateSwapchain() leave it alone - but the end of
\* cleanup() resets it to zero.
C20_FrameCountResetOnlyByCleanup ==
    [][ \/ frameCount' = frameCount
        \/ (pc = "r_advance" /\ frameCount' = frameCount + 1)
        \/ (pc = "cl_destroy" /\ frameCount' = 0) ]_vars

\* C20 witness: cleanup() has returned with the counter at zero although a
\* frame had been completed and timed before
C20_Witness ==
    /\ last = [ op |-> "cleanup", result |-> "returned" ]
    /\ lastFrameTime > 0
    /\ frameCount = 0
    /\ initState = "NOT_INITIALIZED"

\* ------------------------------------------------------------------ spec
Next ==
    \/ \E i \in Slots : GpuComplete(i)
    \/ \E w \in Widths, h \in Heights : InitializeBegin(w, h)
    \/ \E b \in BOOLEAN, e \in SurfaceExtents : InitStepOk(b, e)
    \/ \E k \in 0 .. 2 : InitStepThrow(k)
    \/ Quit
    \/ CleanupBegin
    \/ DestructorBegin
    \/ MemberDestructors
    \/ CleanupWaitIdle
    \/ CleanupWaitIdleThrow
    \/ SyncCleanupWait
    \/ SyncCleanupTimeout
    \/ CleanupDestroy
    \/ RenderNotInitialized
    \/ RenderMinimized
    \/ RenderBegin
    \/ WaitForFrameOk
    \/ WaitForFrameTimeout
    \/ WaitForFrameThrow
    \/ \E r \in Results : AcquireNextImage(r)
    \/ ResetFrameFence
    \/ ResetFrameFenceThrow
    \/ UpdateUniformBuffer
    \/ UpdateUniformBufferThrow
    \/ RecordCommandBuffer
    \/ RecordCommandBufferThrow
    \/ SubmitCommandBuffers
    \/ SubmitCommandBuffersThrow
    \/ \E r \in Results : PresentImage(r)
    \/ \E d \in 1 .. MaxDuration : AdvanceFrame(d)
    \/ RenderCatch
    \/ RecreateWaitIdle
    \/ RecreateWaitIdleThrow
    \/ RecreateDestroy
    \/ \E e \in SurfaceExtents : RecreateCreate(e)
    \/ \E k \in 0 .. 4 : RecreateCreateThrow(k)
    \/ \E w \in Widths, h \in Heights : HandleResizeZero(w, h)
    \/ \E w \in Widths, h \in Heights : HandleResize(w, h)
    \/ HandleResizeWaitIdle
    \/ HandleResizeWaitIdleThrow
    \/ HandleResizeSetup

Spec == Init /\ [][Next]_vars

\* ============================================================== buffers
\* The operations of VulkanBuffer and BufferUtils (src/src/VulkanBuffer.cpp)
\* as VulkanEngine uses them: the vertex and index buffers are built through
\* a staging buffer before the uniform buffers are created, updateUniformBuffer
\* writes one uniform buffer per frame, and cleanup() releases them.  The
\* graphics queue executes a submitted copy asynchronously (GpuCopy).

\* the variables of the frame protocol, which no buffer operation touches
protocolVars ==
    << initState, pc, windowWidth, windowHeight, currentFrame, frameCount,
       fence, pending, alive, swapchainId, initStep, rsCaller, clCaller,
       disturb, resets, uboWriters, hazard, busyAtDrain, call, last,
       renders, cleanRun, waitedSlots, submittedSlots, lastFrameTime,
       running, consecutiveErrors, destroyed, extent >>

NoFailure == "none"

\* an exception out of an operation of initialize() makes initialize() fail:
\* the engine goes on with cleanup() and the destructors only
InitializeFailed ==
    /\ bresult.result = "threw"
    /\ bresult.op # "updateUniformBuffer"

\* what a finished operation on buffers leaves in bresult
BufferOp(op, s) ==
    [NoBufferOp EXCEPT !.op = op,
                       !.result = IF s.threw THEN "threw" ELSE "returned"]

\* the backend state after the method calls collected in s
Backend(s) ==
    /\ vkBuffers' = s.vkb
    /\ vkMemory' = s.vkm
    /\ calls' = s.calls

\* the loop of createUniformBuffers from index i on: w.bufs is m_uniformBuffers;
\* a buffer whose create() throws is released by the destructor of the local
\* of BufferUtils::createUniformBuffer
RECURSIVE CreateUniformBuffersFrom(_, _, _, _, _)
CreateUniformBuffersFrom(i, w, typeFilter, k, fail) ==
    IF i = MAX_FRAMES_IN_FLIGHT \/ w.s.threw
    THEN w
    ELSE LET s == Create(On(w.s, NewVulkanBuffer), BufferSize, "HOST_VISIBLE",
                         typeFilter, IF i = k THEN fail ELSE NoFailure)
         IN  IF s.threw
             THEN [w EXCEPT !.s = Cleanup(s)]
             ELSE CreateUniformBuffersFrom(
                      i + 1, [ bufs |-> [w.bufs EXCEPT ![i] = s.obj], s |-> s ],
                      typeFilter, k, fail)

\* VulkanEngine::createUniformBuffers, which initialize() reaches once the
\* vertex buffer is built; the k-th create() meets the failure
CreateUniformBuffers(typeFilter, k, fail) ==
    /\ bpc = "idle"
    /\ ~InitializeFailed
    /\ \A i \in Slots : ~uniformBuffers[i].device
    /\ locals.temporary = NewVulkanBuffer
    /\ locals.built.memory # NullHandle
    /\ LET w == CreateUniformBuffersFrom(
                    0, [ bufs |-> [i \in Slots |-> NewVulkanBuffer],
                         s |-> Started(NewVulkanBuffer) ],
                    typeFilter, k, fail)
       IN  /\ uniformBuffers' = w.bufs
           /\ Backend(w.s)
           /\ bresult' = BufferOp("createUniformBuffers", w.s)
    /\ UNCHANGED << memoryTypes, descriptorSets, locals, copy, bpc,
                    protocolVars, chainVars, checkVars >>

\* variant of DescriptorBuffer: every descriptor set is given buffer 0
DescriptorBufferFirst(j) == uniformBuffers[0].buffer

\* bufferInfo.buffer of descriptor set j in updateDescriptorSets
DescriptorBuffer(j) == uniformBuffers[j].buffer

\* VulkanEngine::updateDescriptorSets
UpdateDescriptorSets ==
    /\ bpc = "idle"
    /\ ~InitializeFailed
    /\ \A i \in Slots : uniformBuffers[i].buffer # NullHandle
    /\ descriptorSets' = [j \in Slots |-> DescriptorBuffer(j)]
    /\ calls' = << "vkUpdateDescriptorSets" >>
    /\ bresult' = [NoBufferOp EXCEPT !.op = "updateDescriptorSets",
                                     !.result = "returned"]
    /\ UNCHANGED << memoryTypes, vkBuffers, vkMemory, uniformBuffers, locals,
                    copy, bpc, protocolVars, chainVars, checkVars >>

\* VulkanEngine::updateUniformBuffer(i), writing the transforms data
UpdateUniformBufferData(i, data, fail) ==
    /\ bpc = "idle"
    /\ uniformBuffers[i].memory # NullHandle
    /\ LET s == UploadData(Started(uniformBuffers[i]), data, BufferSize, fail)
       IN  /\ uniformBuffers' = [uniformBuffers EXCEPT ![i] = s.obj]
           /\ Backend(s)
           /\ bresult' = [BufferOp("updateUniformBuffer", s)
                             EXCEPT !.obj = "m_uniformBuffers", !.slot = i,
                                    !.data = data]
    /\ UNCHANGED << memoryTypes, descriptorSets, locals, copy, bpc,
                    protocolVars, chainVars, checkVars >>

\* what descriptor set j reads: the bytes the device sees in the memory
\* bound to the buffer the set was written with
ReadThrough(j) ==
    IF descriptorSets[j] \in DOMAIN vkBuffers
    THEN IF vkBuffers[descriptorSets[j]] \in DOMAIN vkMemory
         THEN vkMemory[vkBuffers[descriptorSets[j]]].device
         ELSE Unwritten
    ELSE Unwritten

\* the bytes the device sees in the memory of a VulkanBuffer
Contents(obj) ==
    IF obj.memory \in DOMAIN vkMemory THEN vkMemory[obj.memory].device ELSE Unwritten

\* the objects cleanup() is called on: the uniform buffers and the built
\* vertex or index buffer
Named(name, i) == IF name = "m_uniformBuffers" THEN uniformBuffers[i] ELSE locals[name]

Put(name, i, obj) ==
    /\ uniformBuffers' = IF name = "m_uniformBuffers"
                         THEN [uniformBuffers EXCEPT ![i] = obj] ELSE uniformBuffers
    /\ locals' = IF name = "m_uniformBuffers"
                 THEN locals ELSE [locals EXCEPT ![name] = obj]

\* cleanup() ran on the object after its last create(): create() sets
\* m_size, which cleanup() leaves alone
Cleaned(obj) == ~obj.device /\ obj.size # 0

\* VulkanEngine::cleanup calls cleanup() on the vertex buffer, then on the
\* uniform buffers in index order
CleanupInOrder(name, i) ==
    name = "m_uniformBuffers" =>
        /\ ~locals.built.device
        /\ \A j \in Slots : j < i => ~uniformBuffers[j].device

\* m_uniformBuffers.clear() follows the cleanup() calls; the vertex buffer
\* is destroyed after the uniform buffers (reverse member order)
DestructorInOrder(name, i) ==
    /\ name = "m_uniformBuffers" =>
          /\ \A j \in Slots : ~uniformBuffers[j].device
          /\ \A j \in Slots : j < i => uniformBuffers[j] = NewVulkanBuffer
    /\ name = "built" => \A j \in Slots : uniformBuffers[j] = NewVulkanBuffer

\* cleanup() called on a buffer the engine holds (VulkanEngine::cleanup)
BufferCleanup(name, i) ==
    /\ bpc = "idle"
    /\ name # "m_uniformBuffers" => i = 0
    /\ CleanupInOrder(name, i)
    /\ LET s == Cleanup(Started(Named(name, i)))
       IN  /\ Put(name, i, s.obj)
           /\ Backend(s)
           /\ bresult' = [BufferOp("cleanup", s)
                             EXCEPT !.obj = name, !.slot = i,
                                    !.repeat = Cleaned(Named(name, i))]
    /\ UNCHANGED << memoryTypes, descriptorSets, copy, bpc,
                    protocolVars, chainVars, checkVars >>

\* the destructor of a buffer the engine holds (m_uniformBuffers.clear(),
\* ~VulkanEngine); a new object takes its place
BufferDestructor(name, i) ==
    /\ bpc = "idle"
    /\ name # "m_uniformBuffers" => i = 0
    /\ Named(name, i) # NewVulkanBuffer
    /\ DestructorInOrder(name, i)
    /\ LET s == Cleanup(Started(Named(name, i)))
       IN  /\ Put(name, i, NewVulkanBuffer)
           /\ Backend(s)
           /\ bresult' = [BufferOp("destructor", s)
                             EXCEPT !.obj = name, !.slot = i,
                                    !.repeat = Cleaned(Named(name, i))]
    /\ UNCHANGED << memoryTypes, descriptorSets, copy, bpc,
                    protocolVars, chainVars, checkVars >>

\* stack unwinding out of a BufferUtils function: the destructors of
\* vertexBuffer (if it was constructed) and of stagingBuffer run
Unwound(s, staging, built) == Cleanup(On(Cleanup(On(s, built)), staging))

\* the vertex and index buffers are built before the uniform buffers exist
\* (VulkanEngine::initialize)
BeforeUniformBuffers ==
    /\ \A i \in Slots : uniformBuffers[i] = NewVulkanBuffer
    /\ \A i \in Slots : descriptorSets[i] = NullHandle

\* m_descriptorSets.clear() of VulkanEngine::cleanup, after the uniform
\* buffers are gone
ClearDescriptorSets ==
    /\ bpc = "idle"
    /\ \A i \in Slots : uniformBuffers[i] = NewVulkanBuffer
    /\ \E i \in Slots : descriptorSets[i] # NullHandle
    /\ descriptorSets' = [i \in Slots |-> NullHandle]
    /\ calls' = << >>
    /\ bresult' = [NoBufferOp EXCEPT !.op = "clearDescriptorSets",
                                     !.result = "returned"]
    /\ UNCHANGED << memoryTypes, vkBuffers, vkMemory, uniformBuffers, locals,
                    copy, bpc, protocolVars, chainVars, checkVars >>

BuildOps == { "createVertexBuffer", "createIndexBuffer" }

\* BufferUtils::createVertexBuffer / createIndexBuffer up to the call of
\* copyTo: the staging buffer is created and filled, the device-local buffer
\* is created
CreateBufferBegin(op, data, typeFilter, fail) ==
    /\ bpc = "idle"
    /\ ~InitializeFailed
    /\ BeforeUniformBuffers
    /\ ~locals.built.device
    /\ locals.temporary = NewVulkanBuffer
    /\ LET st == CreateWithData(Started(NewVulkanBuffer), data, BufferSize,
                                "STAGING", typeFilter, fail)
           vb == Create(On(st, NewVulkanBuffer), BufferSize, "DEVICE_LOCAL",
                        typeFilter, NoFailure)
       IN  IF vb.threw
           THEN LET u == Unwound(vb, st.obj,
                                 IF st.threw THEN NewVulkanBuffer ELSE vb.obj)
                IN  /\ Backend(u)
                    /\ locals' = NoLocals
                    /\ bpc' = "idle"
                    /\ bresult' = [BufferOp(op, u) EXCEPT !.data = data]
           ELSE /\ Backend(vb)
                /\ locals' = [locals EXCEPT !.stagingBuffer = st.obj, !.built = vb.obj]
                /\ bpc' = "copy"
                /\ bresult' = [NoBufferOp EXCEPT !.op = op, !.result = "running",
                                                 !.data = data]
    /\ UNCHANGED << memoryTypes, uniformBuffers, descriptorSets, copy,
                    protocolVars, chainVars, checkVars >>

\* the backend calls of copyTo before vkQueueWaitIdle that return a VkResult
SubmitCalls == { "vkAllocateCommandBuffers", "vkBeginCommandBuffer",
                 "vkEndCommandBuffer", "vkQueueSubmit" }

\* the calls copyTo makes up to and including the failing one
RECURSIVE SubmitCallsUpTo(_, _)
SubmitCallsUpTo(order, fail) ==
    IF order = << >> THEN << >>
    ELSE IF Head(order) = fail THEN << fail >>
    ELSE << Head(order) >> \o SubmitCallsUpTo(Tail(order), fail)

CopyToOrder == << "vkAllocateCommandBuffers", "vkBeginCommandBuffer",
                  "vkCmdCopyBuffer", "vkEndCommandBuffer", "vkQueueSubmit" >>

\* VulkanBuffer::copyTo up to vkQueueSubmit: the copy from the staging buffer
\* is recorded and submitted to the graphics queue
CopySubmit(fail) ==
    /\ bpc = "copy"
    /\ LET s == [Started(locals.built)
                    EXCEPT !.calls = calls \o SubmitCallsUpTo(CopyToOrder, fail),
                           !.threw = (fail # NoFailure)]
       IN  IF s.threw
           THEN LET u == Unwound(s, locals.stagingBuffer, locals.built)
                IN  /\ Backend(u)
                    /\ locals' = NoLocals
                    /\ bpc' = "idle"
                    /\ bresult' = [bresult EXCEPT !.result = "threw"]
                    /\ copy' = copy
           ELSE /\ Backend(s)
                /\ copy' = [ src |-> locals.stagingBuffer.memory,
                             dst |-> locals.built.memory, state |-> "pending" ]
                /\ bpc' = "wait"
                /\ UNCHANGED << locals, bresult >>
    /\ UNCHANGED << memoryTypes, uniformBuffers, descriptorSets,
                    protocolVars, chainVars, checkVars >>

\* the graphics queue executes the submitted copy; if the source or the
\* destination was freed in the meantime the copy writes nothing the model
\* tracks
GpuCopy ==
    /\ copy.state = "pending"
    /\ copy' = IF bpc = "wait" THEN [copy EXCEPT !.state = "done"] ELSE NoCopy
    /\ vkMemory' = IF copy.src \in DOMAIN vkMemory /\ copy.dst \in DOMAIN vkMemory
                   THEN [vkMemory EXCEPT ![copy.dst].device = vkMemory[copy.src].device]
                   ELSE vkMemory
    /\ UNCHANGED << memoryTypes, vkBuffers, uniformBuffers, descriptorSets,
                    locals, calls, bpc, bresult,
                    protocolVars, chainVars, checkVars >>

\* vkQueueWaitIdle returns VK_SUCCESS only when the queue has no work left
QueueIdle == copy.state # "pending"

\* endSingleTimeCommands after the wait, then the rest of the BufferUtils
\* function: the command buffer is freed, the staging buffer is cleaned up
\* and destroyed, the built buffer is returned
QueueWaitIdleReturns ==
    /\ bpc = "wait"
    /\ QueueIdle
    /\ LET s == Cleanup(Cleanup(Called(Called([Started(locals.stagingBuffer)
                                                  EXCEPT !.calls = calls],
                                              "vkQueueWaitIdle"),
                                       "vkFreeCommandBuffers")))
       IN  /\ Backend(s)
           /\ locals' = [locals EXCEPT !.stagingBuffer = NewVulkanBuffer]
           /\ bresult' = [bresult EXCEPT !.result = "returned"]
    /\ bpc' = "idle"
    /\ copy' = NoCopy
    /\ UNCHANGED << memoryTypes, uniformBuffers, descriptorSets,
                    protocolVars, chainVars, checkVars >>

\* vkQueueWaitIdle returns an error: endSingleTimeCommands throws and the
\* stack unwinds through the BufferUtils function
QueueWaitIdleFails ==
    /\ bpc = "wait"
    /\ LET u == Unwound(Thrown(Called([Started(locals.built) EXCEPT !.calls = calls],
                                      "vkQueueWaitIdle")),
                        locals.stagingBuffer, locals.built)
       IN  /\ Backend(u)
           /\ locals' = NoLocals
           /\ bresult' = [bresult EXCEPT !.result = "threw"]
    /\ bpc' = "idle"
    /\ UNCHANGED << memoryTypes, uniformBuffers, descriptorSets, copy,
                    protocolVars, chainVars, checkVars >>

\* VulkanBuffer::createWithData called on a new buffer by a caller other
\* than the engine, before the engine creates its buffers
CreateWithDataCall(data, memoryProperty, typeFilter, fail) ==
    /\ bpc = "idle"
    /\ bresult = NoBufferOp
    /\ LET s == CreateWithData(Started(NewVulkanBuffer), data, BufferSize,
                               memoryProperty, typeFilter, fail)
       IN  /\ Backend(s)
           /\ locals' = [locals EXCEPT !.temporary = s.obj]
           /\ bresult' = [BufferOp("createWithData", s)
                             EXCEPT !.data = data,
                                    !.typeFilter = typeFilter,
                                    !.memoryProperty = memoryProperty,
                                    !.memoryTypeIndex =
                                        FindMemoryType(memoryTypes, typeFilter,
                                            GetVulkanMemoryPropertyFlags(memoryProperty))]
    /\ UNCHANGED << memoryTypes, uniformBuffers, descriptorSets, copy, bpc,
                    protocolVars, chainVars, checkVars >>

BufferFailures == { NoFailure } \cup CreateCalls \cup UploadCalls

BufferInit ==
    /\ EngineInit
    /\ memoryTypes \in Devices
    /\ NoBuffers
    /\ NoChain
    /\ NoChecked

BufferNext ==
    \/ \E f \in TypeFilters, k \in Slots, x \in { NoFailure } \cup CreateCalls :
           CreateUniformBuffers(f, k, x)
    \/ UpdateDescriptorSets
    \/ \E i \in Slots, d \in Data, x \in { NoFailure } \cup UploadCalls :
           UpdateUniformBufferData(i, d, x)
    \/ \E n \in { "m_uniformBuffers", "built", "temporary" }, i \in Slots : BufferCleanup(n, i)
    \/ \E n \in { "m_uniformBuffers", "built", "temporary" }, i \in Slots : BufferDestructor(n, i)
    \/ ClearDescriptorSets
    \/ \E o \in BuildOps, d \in Data, f \in TypeFilters, x \in BufferFailures :
           CreateBufferBegin(o, d, f, x)
    \/ \E x \in { NoFailure } \cup SubmitCalls : CopySubmit(x)
    \/ GpuCopy
    \/ QueueWaitIdleReturns
    \/ QueueWaitIdleFails
    \/ \E d \in Data \cup { NullData }, p \in MemoryProperty, f \in TypeFilters,
          x \in BufferFailures : CreateWithDataCall(d, p, f, x)

BufferSpec == BufferInit /\ [][BufferNext]_vars

\* ------------------------------------------------------ claims on buffers
UploadFailures == { NoFailure } \cup UploadCalls

\* C21: updateUniformBuffer(i) changes only slot i's uniform buffer: the
\* contents of every other slot's buffer, and what every other slot's
\* descriptor set reads, stay as they were.
C21_UniformUpdateTouchesOneSlot ==
    [][ \A i \in Slots, d \in Data, x \in UploadFailures :
            UpdateUniformBufferData(i, d, x) =>
                \A j \in Slots \ {i} :
                    /\ Contents(uniformBuffers[j])' = Contents(uniformBuffers[j])
                    /\ ReadThrough(j)' = ReadThrough(j) ]_vars

\* C21 witness: slot i was just written, its descriptor set reads the new
\* data, and another slot's descriptor set still reads other data written
\* earlier.
C21_Witness ==
    /\ bresult.op = "updateUniformBuffer"
    /\ bresult.result = "returned"
    /\ ReadThrough(bresult.slot) = bresult.data
    /\ \E j \in Slots \ {bresult.slot} : ReadThrough(j) \in Data \ {bresult.data}

\* C22: createVertexBuffer / createIndexBuffer return only after the copy
\* into the device-local buffer has completed, and the staging buffer is
\* destroyed only after that copy has completed (its memory exists as long
\* as the copy is pending).
C22_StagingOutlivesCopy ==
    /\ (bresult.op \in BuildOps /\ bresult.result = "returned")
           => Contents(locals.built) = bresult.data
    /\ copy.state = "pending" => copy.src \in DOMAIN vkMemory

\* the memory types findMemoryType may select for the last createWithData
Matching ==
    { i \in 0 .. Len(memoryTypes) - 1 :
        /\ i \in bresult.typeFilter
        /\ GetVulkanMemoryPropertyFlags(bresult.memoryProperty) \subseteq memoryTypes[i + 1] }

\* C23: findMemoryType returns the lowest index whose filter bit is set and
\* whose memory type has every requested flag; when there is none it throws
\* and create() ends with an exception and without memory.
C23_FindMemoryTypeLowestMatch ==
    bresult.op = "createWithData" =>
        /\ Matching # {} =>
               /\ bresult.memoryTypeIndex \in Matching
               /\ \A j \in Matching : bresult.memoryTypeIndex <= j
        /\ Matching = {} =>
               /\ bresult.memoryTypeIndex = NoMemoryType
               /\ bresult.result = "threw"
               /\ locals.temporary.memory = NullHandle
               /\ vkMemory = << >>
        /\ locals.temporary.memory # NullHandle =>
               vkMemory[locals.temporary.memory].type = bresult.memoryTypeIndex

\* C23 witness: two memory types match and the buffer got memory of type 0.
C23_Witness ==
    /\ bresult.op = "createWithData"
    /\ Cardinality(Matching) >= 2
    /\ locals.temporary.memory # NullHandle
    /\ vkMemory[locals.temporary.memory].type = 0

\* the buffer the last uploadData wrote
Uploaded ==
    IF bresult.op = "updateUniformBuffer"
    THEN uniformBuffers[bresult.slot]
    ELSE locals.temporary

\* the position of a call among the backend calls, 0 if it was not made
CallIndex(name) ==
    IF \E k \in DOMAIN calls : calls[k] = name
    THEN CHOOSE k \in DOMAIN calls : calls[k] = name /\ \A l \in 1 .. k - 1 : calls[l] # name
    ELSE 0

\* C24: uploadData maps, copies and unmaps, and between the copy and the
\* unmap it flushes the written range if and only if the memory type of the
\* buffer is not host-coherent.
C24_FlushIffNotCoherent ==
    (bresult.op \in { "updateUniformBuffer", "createWithData" }
        /\ CallIndex("memcpy") > 0) =>
        /\ CallIndex("vkMapMemory") = CallIndex("memcpy") - 1
        /\ bresult.result = "returned" =>
               /\ calls[Len(calls)] = "vkUnmapMemory"
               /\ Contents(Uploaded) = bresult.data
        /\ IF "HOST_COHERENT" \in memoryTypes[vkMemory[Uploaded.memory].type + 1]
           THEN CallIndex("vkFlushMappedMemoryRanges") = 0
           ELSE CallIndex("vkFlushMappedMemoryRanges") = CallIndex("memcpy") + 1

\* C24 witness: an upload into host-coherent memory made of exactly a map, a
\* copy and an unmap.
C24_Witness ==
    /\ bresult.op = "updateUniformBuffer"
    /\ bresult.result = "returned"
    /\ calls = << "vkMapMemory", "memcpy", "vkUnmapMemory" >>
    /\ "HOST_COHERENT" \in memoryTypes[vkMemory[Uploaded.memory].type + 1]

ReleaseCalls == { "vkUnmapMemory", "vkDestroyBuffer", "vkFreeMemory" }

\* C25: a cleanup() call or the destructor on a buffer that cleanup() already
\* ran on makes no unmap, destroy-buffer or free-memory call.
C25_BufferCleanupIdempotent ==
    (bresult.op \in { "cleanup", "destructor" } /\ bresult.repeat) =>
        \A k \in DOMAIN calls : calls[k] \notin ReleaseCalls

\* C25 witness: the destructor of a uniform buffer that was created and then
\* cleaned up.
C25_Witness ==
    /\ bresult.op = "destructor"
    /\ bresult.obj = "m_uniformBuffers"
    /\ bresult.repeat
    /\ calls = << >>

\* C26: createWithData with DEVICE_LOCAL memory and non-null data, whose
\* create() step succeeded, returns normally with the data in the buffer.
C26_DeviceLocalCreateWithDataUploads ==
    ( /\ bresult.op = "createWithData"
      /\ bresult.memoryProperty = "DEVICE_LOCAL"
      /\ bresult.data # NullData
      /\ locals.temporary.buffer \in DOMAIN vkBuffers
      /\ vkBuffers[locals.temporary.buffer] = locals.temporary.memory
      /\ locals.temporary.memory \in DOMAIN vkMemory ) =>
        /\ bresult.result = "returned"
        /\ Contents(locals.temporary) = bresult.data

\* ------------------------------------------------------------ swapchain
\* the window sizes passed to VulkanSwapchain::create
Sizes == (1 .. MaxWidth) \X (1 .. MaxHeight)

\* VulkanSwapchain::create on an object that holds no swapchain; fail tells
\* whether vkCreateSwapchainKHR returns an error
SwapchainCreate(fail) ==
    /\ ~chain.swapchain
    /\ Len(chainLog) < MaxRecreate
    /\ IF ~IsAdequate(support)
       THEN UNCHANGED << chain, chainLog >>
       ELSE IF fail
       THEN /\ chain' = CreateFailed(Parameters(support, request))
            /\ UNCHANGED chainLog
       ELSE /\ chain' = Created(Parameters(support, request), driver)
            /\ chainLog' = Append(chainLog, chain')
    /\ UNCHANGED << support, request, driver, dependents,
                    protocolVars, bufferVars, checkVars >>

\* VulkanSwapchain::cleanup
SwapchainCleanup ==
    /\ chain # NoParameters
    /\ chain' = NoParameters
    /\ UNCHANGED << support, request, chainLog, driver, dependents,
                    protocolVars, bufferVars, checkVars >>

\* VulkanSwapchain::recreate with the dimensions of the last create:
\* cleanup() and create() in one call
SwapchainRecreate(fail) ==
    /\ chain.swapchain
    /\ Len(chainLog) < MaxRecreate
    /\ IF fail
       THEN /\ chain' = CreateFailed(Parameters(support, request))
            /\ UNCHANGED chainLog
       ELSE /\ chain' = Created(Parameters(support, request), driver)
            /\ chainLog' = Append(chainLog, chain')
    /\ UNCHANGED << support, request, driver, dependents,
                    protocolVars, bufferVars, checkVars >>

\* the window gets another size: the next create is called with it
SwapchainResize(size) ==
    /\ size # request
    /\ chainLog # << >>
    /\ request' = size
    /\ chainLog' = << >>
    /\ UNCHANGED << support, chain, driver, dependents,
                    protocolVars, bufferVars, checkVars >>

SwapchainInit ==
    /\ EngineInit
    /\ memoryTypes = << >>
    /\ NoBuffers
    /\ NoChecked
    /\ support \in Supports
    /\ request \in Sizes
    /\ chain = NoParameters
    /\ chainLog = << >>
    /\ driver = NoDriver
    /\ dependents = NoDependents

SwapchainNext ==
    \/ \E fail \in BOOLEAN : SwapchainCreate(fail)
    \/ SwapchainCleanup
    \/ \E fail \in BOOLEAN : SwapchainRecreate(fail)
    \/ \E size \in Sizes : SwapchainResize(size)

SwapchainSpec == SwapchainInit /\ [][SwapchainNext]_vars

\* C27: choosePresentMode returns MAILBOX when MAILBOX is among the
\* available present modes and FIFO otherwise.
C27_PresentModeMailboxElseFifo ==
    chain.swapchain =>
        chain.presentMode = IF "MAILBOX" \in Elements(support.presentModes)
                            THEN "MAILBOX"
                            ELSE "FIFO"

\* C28: with maxImageCount = 0 or maxImageCount >= minImageCount,
\* chooseImageCount returns minImageCount + 1, except that it returns
\* maxImageCount when maxImageCount > 0 and minImageCount + 1 exceeds it;
\* the result is at least minImageCount and at most a non-zero maxImageCount.
C28_ImageCountClamped ==
    (chain.swapchain
        /\ (support.maxImageCount = 0 \/ support.maxImageCount >= support.minImageCount)) =>
        /\ chain.imageCount =
               IF support.maxImageCount > 0
                  /\ support.minImageCount + 1 > support.maxImageCount
               THEN support.maxImageCount
               ELSE support.minImageCount + 1
        /\ chain.imageCount >= support.minImageCount
        /\ support.maxImageCount # 0 => chain.imageCount <= support.maxImageCount

\* C28 witness: a swapchain whose image count was clamped to the maximum.
C28_Witness ==
    /\ chain.swapchain
    /\ support.maxImageCount > 0
    /\ support.minImageCount + 1 > support.maxImageCount
    /\ chain.imageCount = support.maxImageCount

FrameIndexes == 0 .. MaxFrameIndex
ListSizes == 0 .. MaxList

\* variant of InRange: the size itself is taken for an index
InRangeInclusive(frameIndex) == frameIndex <= frameSyncObjects

\* the negation of the test frameIndex >= m_frameSyncObjects.size()
InRange(frameIndex) == frameIndex < frameSyncObjects

\* a call of VulkanSynchronization with a frame index: the backend calls are
\* made only past the range test, and a failing backend call throws
FrameCall(op, frameIndex, backend, fails) ==
    checked' = [ op |-> op, frames |-> frameSyncObjects, frameIndex |-> frameIndex,
                 first |-> 0, second |-> 0,
                 threw |-> ~InRange(frameIndex) \/ fails,
                 calls |-> IF InRange(frameIndex) THEN backend ELSE << >> ]

\* a call with two lists that must have the same size
ListCall(op, first, second, backend, fails) ==
    checked' = [ op |-> op, frames |-> frameSyncObjects, frameIndex |-> 0,
                 first |-> first, second |-> second,
                 threw |-> first # second \/ fails,
                 calls |-> IF first = second THEN backend ELSE << >> ]

\* VulkanSynchronization::create for the frames in flight of the engine
SyncCreate ==
    /\ frameSyncObjects = 0
    /\ frameSyncObjects' = MAX_FRAMES_IN_FLIGHT
    /\ UNCHANGED << checked, protocolVars, bufferVars, chainVars >>

\* VulkanSynchronization::cleanup
SyncCleanup ==
    /\ frameSyncObjects # 0
    /\ frameSyncObjects' = 0
    /\ UNCHANGED << checked, protocolVars, bufferVars, chainVars >>

\* VulkanSynchronization::waitForFrame; result is what vkWaitForFences returns
WaitForFrameCall(frameIndex, result) ==
    /\ FrameCall("waitForFrame", frameIndex, << "vkWaitForFences" >>,
                 result \notin { "VK_SUCCESS", "VK_TIMEOUT" })
    /\ UNCHANGED << frameSyncObjects, protocolVars, bufferVars, chainVars >>

\* VulkanSynchronization::resetFrameFence
ResetFrameFenceCall(frameIndex, result) ==
    /\ FrameCall("resetFrameFence", frameIndex, << "vkResetFences" >>,
                 result # "VK_SUCCESS")
    /\ UNCHANGED << frameSyncObjects, protocolVars, bufferVars, chainVars >>

Getters == { "getFrameSyncObjects", "getImageAvailableSemaphore",
             "getRenderFinishedSemaphore", "getInFlightFence" }

\* VulkanSynchronization::getFrameSyncObjects and the three getters that
\* go through it
GetCall(getter, frameIndex) ==
    /\ FrameCall(getter, frameIndex, << >>, FALSE)
    /\ UNCHANGED << frameSyncObjects, protocolVars, bufferVars, chainVars >>

\* VulkanSynchronization::submitCommandBuffers
SubmitCommandBuffersCall(waitSemaphores, waitStages, result) ==
    /\ ListCall("submitCommandBuffers", waitSemaphores, waitStages,
                << "vkQueueSubmit" >>, result # "VK_SUCCESS")
    /\ UNCHANGED << frameSyncObjects, protocolVars, bufferVars, chainVars >>

\* VulkanCommandPool::bindVertexBuffers
BindVertexBuffersCall(buffers, offsets) ==
    /\ ListCall("bindVertexBuffers", buffers, offsets,
                << "vkCmdBindVertexBuffers" >>, FALSE)
    /\ UNCHANGED << frameSyncObjects, protocolVars, bufferVars, chainVars >>

CheckedResults == { "VK_SUCCESS", "VK_TIMEOUT", "VK_ERROR_DEVICE_LOST" }

CheckedInit ==
    /\ EngineInit
    /\ memoryTypes = << >>
    /\ NoBuffers
    /\ NoChain
    /\ NoChecked

CheckedNext ==
    \/ SyncCreate
    \/ SyncCleanup
    \/ \E i \in FrameIndexes, r \in CheckedResults : WaitForFrameCall(i, r)
    \/ \E i \in FrameIndexes, r \in CheckedResults \ { "VK_TIMEOUT" } : ResetFrameFenceCall(i, r)
    \/ \E g \in Getters, i \in FrameIndexes : GetCall(g, i)
    \/ \E a, b \in ListSizes, r \in CheckedResults \ { "VK_TIMEOUT" } : SubmitCommandBuffersCall(a, b, r)
    \/ \E a, b \in ListSizes : BindVertexBuffersCall(a, b)

CheckedSpec == CheckedInit /\ [][CheckedNext]_vars

\* C30: a frame index outside the frame slots passed to waitForFrame,
\* resetFrameFence or a per-slot getter, wait semaphores and wait stages of
\* different lengths passed to submitCommandBuffers, and buffers and offsets
\* of different lengths passed to bindVertexBuffers each end the call with an
\* exception and without any backend call.
C30_InvalidArgumentsThrowBeforeBackend ==
    /\ (checked.op \in { "waitForFrame", "resetFrameFence" } \cup Getters
            /\ checked.frameIndex >= checked.frames) =>
           (checked.threw /\ checked.calls = << >>)
    /\ (checked.op \in { "submitCommandBuffers", "bindVertexBuffers" }
            /\ checked.first # checked.second) =>
           (checked.threw /\ checked.calls = << >>)

\* C30 witness: waitForFrame was called on created frame slots with the
\* first index past them and threw.
C30_Witness ==
    /\ checked.op = "waitForFrame"
    /\ checked.frames = MAX_FRAMES_IN_FLIGHT
    /\ checked.frameIndex = MAX_FRAMES_IN_FLIGHT
    /\ checked.threw
    /\ checked.calls = << >>

\* ------------------------------------------- claims on the engine, again
\* C32: whenever a render() call has returned normally, the fence of the
\* slot the next call waits on is signalled or a pending submission will
\* signal it, so the wait at the start of the next call ends.
C32_NextWaitTerminates ==
    ( /\ pc = "idle"
      /\ initState = "FULLY_INITIALIZED"
      /\ last = [ op |-> "render", result |-> "returned" ] ) =>
        (fence[currentFrame] \/ pending[currentFrame] > 0)

\* C33: at the wait on all slot fences inside
\* VulkanSynchronization::cleanup(), every fence is signalled or a pending
\* submission will signal it, so the wait ends.
C33_CleanupWaitTerminates ==
    pc = "cl_sync" => \A i \in Slots : fence[i] \/ pending[i] > 0

\* C34: whenever the engine reports FULLY_INITIALIZED and no operation is
\* executing, the swapchain, render pass, framebuffers, depth buffer and
\* pipeline all exist.
C34_FullyInitializedHasDependents ==
    (pc = "idle" /\ initState = "FULLY_INITIALIZED") =>
        Range(SwapchainDependents) \subseteq alive

\* C37: between engine operations the current-slot index is below
\* MAX_FRAMES_IN_FLIGHT and equals the frame counter modulo
\* MAX_FRAMES_IN_FLIGHT.
C37_SlotIndexIsCounterModulo ==
    pc = "idle" =>
        /\ currentFrame \in 0 .. MAX_FRAMES_IN_FLIGHT - 1
        /\ currentFrame = frameCount % MAX_FRAMES_IN_FLIGHT

\* C37 witness: more frames than slots were counted, not all render() calls
\* succeeded in full, and the index has wrapped.
C37_Witness ==
    /\ pc = "idle"
    /\ initState = "FULLY_INITIALIZED"
    /\ ~cleanRun
    /\ frameCount = MAX_FRAMES_IN_FLIGHT + 1
    /\ currentFrame = 1

\* C35: during initialize() the recorded initialization state never
\* decreases in the order of the InitializationState enum.
C35_InitStateNeverDecreases ==
    [][ pc = "init" => Ord(initState') >= Ord(initState) ]_vars

RenderPassDepthFormat == "D32_SFLOAT"

\* the candidates of VulkanEngine::findDepthFormat, in its order
DepthCandidates == << "D32_SFLOAT", "D32_SFLOAT_S8_UINT", "D24_UNORM_S8_UINT" >>

\* VulkanEngine::findSupportedFormat: the first candidate whose optimal
\* tiling features hold the wanted feature; "UNDEFINED" stands for the throw
FindSupportedFormat(candidates, supported) ==
    IF \E i \in 1 .. Len(candidates) : candidates[i] \in supported
    THEN candidates[Lowest({ i \in 1 .. Len(candidates) : candidates[i] \in supported })]
    ELSE "UNDEFINED"

\* VulkanEngine::findDepthFormat
FindDepthFormat(drv) == FindSupportedFormat(DepthCandidates, drv.depthFormats)

\* VulkanRenderPass::create as the engine calls it
WithRenderPass(d) ==
    [d EXCEPT !.renderPass = TRUE, !.renderPassDepthFormat = RenderPassDepthFormat]

DepthBufferExtentOfWindow(c, size) == size

\* the extent VulkanEngine::createDepthBuffer gives the depth image
DepthBufferExtent(c, size) == c.extent

\* VulkanEngine::createDepthBuffer
WithDepthBuffer(d, c, size, drv) ==
    [d EXCEPT !.depthImage = TRUE,
              !.depthFormat = FindDepthFormat(drv),
              !.depthExtent = DepthBufferExtent(c, size)]

\* VulkanRenderPass::createFramebuffers with the swapchain's image views and
\* extent: the vector is resized before the first vkCreateFramebuffer
WithFramebuffers(d, c) ==
    [d EXCEPT !.framebuffers = c.images, !.framebufferExtent = c.extent]

\* VulkanPipeline::createGraphicsPipeline with the swapchain's extent
WithPipeline(d, c) ==
    [d EXCEPT !.pipeline = TRUE, !.viewportExtent = c.extent]

\* the steps after the swapchain's creation, in the order of initialize and
\* recreateSwapchain; step failAt throws (0: none does), and
\* createDepthBuffer throws as well when no candidate format is supported
Dependents(c, size, drv, failAt) ==
    LET d0 == [NoDependents EXCEPT !.initialized = TRUE]
        d1 == WithRenderPass(d0)
        d2 == WithDepthBuffer(d1, c, size, drv)
        d3 == WithFramebuffers(d2, c)
    IN  IF failAt = 1 THEN d0
        ELSE IF failAt = 2 \/ FindDepthFormat(drv) = "UNDEFINED" THEN d1
        ELSE IF failAt \in { 3, 4 } THEN d3
        ELSE WithPipeline(d3, c)

\* the steps that can throw
FailAts == 0 .. 4

\* VulkanEngine::initialize, steps 4 to 6 and the catch: a failure ends in
\* cleanup(), which leaves the swapchain alone when its creation failed
DependentsInitialize(failSwapchain, failAt, failLater) ==
    /\ ~dependents.initialized
    /\ chainLog = << >>
    /\ LET c == Created(Parameters(support, request), driver)
           d == Dependents(c, request, driver, failAt)
       IN  IF failSwapchain
           THEN /\ chain' = CreateFailed(Parameters(support, request))
                /\ UNCHANGED << chainLog, dependents >>
           ELSE /\ chainLog' = Append(chainLog, c)
                /\ IF d.pipeline /\ ~failLater
                   THEN chain' = c /\ dependents' = d
                   ELSE chain' = NoParameters /\ dependents' = NoDependents
    /\ UNCHANGED << support, request, driver, protocolVars, bufferVars, checkVars >>

\* VulkanEngine::recreateSwapchain for the window size given: the old
\* objects are destroyed, the new ones created up to the step that throws
\* (initialize created one of the MaxRecreate swapchains already)
Recreated(size, failSwapchain, failAt) ==
    /\ dependents.initialized
    /\ Len(chainLog) < MaxRecreate - 1
    /\ LET c == Created(Parameters(support, size), driver)
       IN  IF failSwapchain
           THEN /\ chain' = CreateFailed(Parameters(support, size))
                /\ dependents' = [NoDependents EXCEPT !.initialized = TRUE]
                /\ UNCHANGED chainLog
           ELSE /\ chain' = c
                /\ dependents' = Dependents(c, size, driver, failAt)
                /\ chainLog' = Append(chainLog, c)
    /\ UNCHANGED << support, driver, protocolVars, bufferVars, checkVars >>

\* VulkanEngine::recreateSwapchain, called by render
DependentsRecreate(failSwapchain, failAt) ==
    /\ Recreated(request, failSwapchain, failAt)
    /\ UNCHANGED request

\* VulkanEngine::handleResize with a non-zero size
DependentsHandleResize(size, failSwapchain, failAt) ==
    /\ request' = size
    /\ Recreated(size, failSwapchain, failAt)

\* VulkanEngine::cleanup of an initialized engine
DependentsCleanup ==
    /\ dependents.initialized
    /\ dependents' = NoDependents
    /\ chain' = NoParameters
    /\ UNCHANGED << support, request, chainLog, driver,
                    protocolVars, bufferVars, checkVars >>

\* the window system gives the surface another current extent
SurfaceResized(current) ==
    /\ current # support.currentExtent
    /\ support' = [support EXCEPT !.currentExtent = current]
    /\ UNCHANGED << request, chain, chainLog, driver, dependents,
                    protocolVars, bufferVars, checkVars >>

\* surfaces of one format and the FIFO mode alone
DependentSupports ==
    { s \in Supports : Len(s.formats) = 1 /\ s.presentModes = << "FIFO" >>
                       /\ s.minImageCount = 1 /\ s.maxImageCount = 0 }

\* the devices: any set of the candidate depth formats, and a driver that
\* creates up to MaxExtraImages images more than asked for
Drivers ==
    [ depthFormats : SUBSET Elements(DepthCandidates),
      extraImages : 0 .. MaxExtraImages ]

DependentsInit ==
    /\ EngineInit
    /\ memoryTypes = << >>
    /\ NoBuffers
    /\ NoChecked
    /\ support \in DependentSupports
    /\ request \in Sizes
    /\ chain = NoParameters
    /\ chainLog = << >>
    /\ driver \in Drivers
    /\ dependents = NoDependents

DependentsNext ==
    \/ \E failSwapchain \in BOOLEAN, failAt \in FailAts, failLater \in BOOLEAN :
           DependentsInitialize(failSwapchain, failAt, failLater)
    \/ \E failSwapchain \in BOOLEAN, failAt \in FailAts :
           DependentsRecreate(failSwapchain, failAt)
    \/ \E size \in Sizes, failSwapchain \in BOOLEAN, failAt \in FailAts :
           DependentsHandleResize(size, failSwapchain, failAt)
    \/ DependentsCleanup
    \/ \E current \in SurfaceExtents : SurfaceResized(current)

DependentsSpec == DependentsInit /\ [][DependentsNext]_vars

\* C36: after every completed initialize(), recreateSwapchain() or
\* handleResize() there are as many framebuffers as swapchain images, the
\* framebuffers, the depth buffer and the viewport have the swapchain's
\* extent, and every image index acquisition can return has a framebuffer.
C36_DependentsMatchSwapchain ==
    dependents.pipeline =>
        /\ chain.swapchain
        /\ dependents.framebuffers = chain.images
        /\ dependents.framebufferExtent = chain.extent
        /\ dependents.depthExtent = chain.extent
        /\ dependents.viewportExtent = chain.extent
        /\ \A imageIndex \in 0 .. chain.images - 1 :
               imageIndex < dependents.framebuffers

C36_Witness ==
    /\ dependents.pipeline
    /\ Len(chainLog) > 1
    /\ chain.images > chain.imageCount
    /\ chain.extent # request

\* C39: the depth attachment format of the render pass equals the format of
\* the depth image createDepthBuffer() created, whatever depth formats the
\* device supports, after initialize() and after every recreation.
C39_DepthFormatsAgree ==
    dependents.pipeline =>
        dependents.renderPassDepthFormat = dependents.depthFormat

\* ------------------------------------------- ownership of buffer handles
\* the VulkanBuffer objects of the ownership model
BufferObjects == { "stagingBuffer", "built" }

\* its devices: those of one memory type
OwnDevices == { types \in Devices : Len(types) = 1 }

\* the source of a move after it: the members the move operations reset
MovedFrom(other) ==
    [other EXCEPT !.device = FALSE, !.buffer = NullHandle, !.memory = NullHandle,
                  !.size = 0, !.mappedMemory = FALSE, !.isCoherent = FALSE]

\* the memory properties its buffers are created with
OwnProperties == { "DEVICE_LOCAL", "STAGING" }

\* VulkanBuffer::create called on an object, whatever it holds, while there
\* are fewer buffers than objects
OwnCreate(name, memoryProperty, typeFilter, fail) ==
    /\ Cardinality(DOMAIN vkBuffers) < Cardinality(BufferObjects)
    /\ LET s == Create(Started(locals[name]), BufferSize, memoryProperty,
                       typeFilter, fail)
       IN  /\ Backend(s)
           /\ locals' = [locals EXCEPT ![name] = s.obj]
    /\ UNCHANGED << memoryTypes, uniformBuffers, descriptorSets, copy, bpc, bresult,
                    protocolVars, chainVars, checkVars >>

\* VulkanBuffer::VulkanBuffer(VulkanBuffer&&): a new object takes every
\* member of other, and other is reset
MoveConstruct(name, other) ==
    /\ name # other
    /\ locals[name] = NewVulkanBuffer
    /\ locals[other] # NewVulkanBuffer
    /\ locals' = [locals EXCEPT ![name] = locals[other],
                                ![other] = MovedFrom(locals[other])]
    /\ UNCHANGED << memoryTypes, vkBuffers, vkMemory, uniformBuffers, descriptorSets,
                    copy, calls, bpc, bresult, protocolVars, chainVars, checkVars >>

\* VulkanBuffer::operator=(VulkanBuffer&&): nothing on self-assignment, else
\* cleanup() of the target, which then takes the members of other
MoveAssign(name, other) ==
    /\ locals[name] # NewVulkanBuffer \/ locals[other] # NewVulkanBuffer
    /\ IF name = other
       THEN UNCHANGED << locals, vkBuffers, vkMemory, calls >>
       ELSE LET s == Cleanup(Started(locals[name]))
            IN  /\ Backend(s)
                /\ locals' = [locals EXCEPT ![name] = locals[other],
                                            ![other] = MovedFrom(locals[other])]
    /\ UNCHANGED << memoryTypes, uniformBuffers, descriptorSets, copy, bpc, bresult,
                    protocolVars, chainVars, checkVars >>

\* VulkanBuffer::cleanup called on an object
OwnCleanup(name) ==
    /\ locals[name] # NewVulkanBuffer
    /\ LET s == Cleanup(Started(locals[name]))
       IN  /\ Backend(s)
           /\ locals' = [locals EXCEPT ![name] = s.obj]
    /\ UNCHANGED << memoryTypes, uniformBuffers, descriptorSets, copy, bpc, bresult,
                    protocolVars, chainVars, checkVars >>

\* VulkanBuffer::~VulkanBuffer; a new object takes the place of the destroyed
OwnDestructor(name) ==
    /\ locals[name] # NewVulkanBuffer
    /\ LET s == Cleanup(Started(locals[name]))
       IN  /\ Backend(s)
           /\ locals' = [locals EXCEPT ![name] = NewVulkanBuffer]
    /\ UNCHANGED << memoryTypes, uniformBuffers, descriptorSets, copy, bpc, bresult,
                    protocolVars, chainVars, checkVars >>

OwnInit ==
    /\ EngineInit
    /\ memoryTypes \in OwnDevices
    /\ NoBuffers
    /\ NoChain
    /\ NoChecked

OwnNext ==
    \/ \E n \in BufferObjects, p \in OwnProperties, f \in TypeFilters,
          x \in { NoFailure } \cup CreateCalls : OwnCreate(n, p, f, x)
    \/ \E n \in BufferObjects, o \in BufferObjects : MoveConstruct(n, o)
    \/ \E n \in BufferObjects, o \in BufferObjects : MoveAssign(n, o)
    \/ \E n \in BufferObjects : OwnCleanup(n)
    \/ \E n \in BufferObjects : OwnDestructor(n)

OwnSpec == OwnInit /\ [][OwnNext]_vars

\* the objects that hold buffer b, and those that hold memory m
BufferOwners(b) == { n \in BufferObjects : locals[n].buffer = b }
MemoryOwners(m) == { n \in BufferObjects : locals[n].memory = m }

\* C31: over every sequence of create, move construction, move assignment,
\* cleanup() and destruction, each buffer and each memory that exists is
\* held by exactly one object (which will destroy it, once), and no object
\* holds a handle that was destroyed.
C31_SingleOwnerDestroyedOnce ==
    /\ \A b \in DOMAIN vkBuffers : Cardinality(BufferOwners(b)) = 1
    /\ \A m \in DOMAIN vkMemory : Cardinality(MemoryOwners(m)) = 1
    /\ \A n \in BufferObjects :
           /\ locals[n].buffer # NullHandle =>
                  locals[n].device /\ locals[n].buffer \in DOMAIN vkBuffers
           /\ locals[n].memory # NullHandle =>
                  locals[n].device /\ locals[n].memory \in DOMAIN vkMemory

====
